---- MODULE Spec2Model ----
(***************************************************************************)
(* Model of template2slide/scripts/generate_from_json.js: the file-type    *)
(* validator, the remote asset fetcher (downloadFileDirect, fetchResponse, *)
(* downloadGoogleDriveFile, downloadFile, downloadImage), the download     *)
(* task of generatePresentation that records the fetch's outcome, and the  *)
(* slide aggregator (aggregateSlides).                                     *)
(*                                                                         *)
(* A file is a record [head, pad]: the bytes of head followed by pad       *)
(* filler bytes (0x00).  Bytes are integers 0..255, text is ASCII.         *)
(***************************************************************************)
EXTENDS Integers, Sequences, FiniteSets, TLC

VARIABLES
    \* ---- validator harness (SpecValidate)
    vfile,      \* the file handed to validateFileType, or NoFile
    vkind,      \* the expectedType argument
    vres,       \* "none" before the call, then "true" | "false" as returned
    \* ---- one fetch and its download task (SpecFetch)
    fn,         \* "downloadFile" | "downloadImage"
    isVideo,    \* the isVideo argument (TRUE only through downloadVideo)
    urlKind,    \* "drive" (share link) | "plain" | "empty"
    scen,       \* server disposition: "any" | "interstitial"
    pc,         \* position in the fetch
    at,         \* phase of the downloadFileDirect call in progress
    budget,     \* maxRedirects of the downloadFileDirect call in progress
    redirs,     \* redirect responses followed by that call
    reqs,       \* requests issued by the strategy in progress
    derr,       \* why the last downloadFileDirect call rejected
    disk,       \* the file at outputPath, or NoFile
    resp,       \* the response fetchResponse resolved with, or NoResp
    dl,         \* the browser download captured, or NoFile
    pages,      \* pages opened by this fetch and not yet closed
    after,      \* what follows the finally block: "return" | "throw" | "fall"
    ret,        \* "pending" | "path" | "null" | "raised"
    tried,      \* the strategies attempted, in order, with their outcome
    checked,    \* the file on disk passed validateFileType since written
    ev,         \* last validator verdict event: "none" | "rejected" | "accepted"
    asset,      \* the AssetResult recorded by the download task, or NoAsset
    closeErr,   \* a page.close() call of this fetch raised
    \* ---- one call of aggregateSlides (SpecAggregate)
    slides,     \* the argument: the input slide list
    aggregated, \* the list under construction, returned at the end
    origin,     \* for each entry of aggregated, the index of its input slide
    loopI,      \* the loop index i (0-based, as in the code)
    nonTrivialSlides,  \* indices of the run's slides that passed the filter
    slideIdx,   \* position of the forEach over nonTrivialSlides (1-based)
    apc,        \* "idle" | "loop" | "each" | "returned"
    \* ---- the asset stage of one run of generatePresentation (SpecRun)
    aggregatedSlides,  \* the normalized slide list
    downloadTasks,     \* the tasks prepared, in slide order
    tstate,     \* per task: "created" | "running" | "page" (a browser page
                \*   is open) | "settled" | "hung"
    downloadResults,   \* per task: the value it fulfilled with, or NoResult
    assetMap,   \* per slide (index + 1): the record set, or NoAsset
    writes,     \* per slide: the number of assetMap.set calls for its index
    session,    \* browser and context: "none" | "open" | "closed"
    opens,      \* sessions opened by this run
    closes,     \* completed closes of the session
    sessErr,    \* opening or closing the session itself raised
    rpc,        \* position of the run
    rexc,       \* an exception is on its way out of the try block
    di,         \* index i of the diagram loop (0-based)
    renderLog,  \* slide indices whose render was started, in order
    outOfOrder, \* some task settled before a task that precedes it in the list
    htmlMedia,  \* per slide: what the media area of its HTML page holds
    \* ---- one pass of the diagram loop with its files (SpecRender)
    rslide,     \* the slide of the pass
    rIdx,       \* its index i (0-based)
    mmdExists,  \* the temporary .mmd file exists
    outFile,    \* the file at the output path: "none" | "stale" | "partial"
                \*   | "engine" | "placeholder"
    wrote,      \* the pass has written a file
    engineRes,  \* execSync of the engine: "notcalled" | "ok" | "failed"
    sharpRes,   \* the placeholder write: "notcalled" | "ok" | "failed"
    rret,       \* what renderMermaidDiagram returned: "none" | "path" | "null"
                \*   | "raised"
    drecord,    \* the record set for the slide, or NoAsset
    dhtml,      \* the diagram area of the slide's HTML: "none" | "img" | "empty"
    rndpc       \* position of the pass

valVars   == <<vfile, vkind, vres>>
fetchVars == <<fn, isVideo, urlKind, scen, pc, at, budget, redirs, reqs, derr,
               disk, resp, dl, pages, after, ret, tried, checked, ev, asset,
               closeErr>>
aggVars   == <<slides, aggregated, origin, loopI, nonTrivialSlides, slideIdx,
               apc>>
runVars   == <<aggregatedSlides, downloadTasks, tstate, downloadResults,
               assetMap, writes, session, opens, closes, sessErr, rpc, rexc,
               di, renderLog, outOfOrder, htmlMedia>>
renderVars == <<rslide, rIdx, mmdExists, outFile, wrote, engineRes, sharpRes,
                rret, drecord, dhtml, rndpc>>
vars      == <<valVars, fetchVars, aggVars, runVars, renderVars>>

NoFile  == [none |-> TRUE]
NoResp  == [noresp |-> TRUE]
NoAsset == [noasset |-> TRUE]

-----------------------------------------------------------------------------
(* Bytes and files *)

Min(a, b) == IF a < b THEN a ELSE b

\* a file of exactly `size` bytes that starts with `head`
MkFile(head, size) == [head |-> head, pad |-> size - Len(head)]

Size(f) == Len(f.head) + f.pad

\* byte at 0-based offset i (i < Size(f))
At(f, i) == IF i < Len(f.head) THEN f.head[i + 1] ELSE 0

Zeros(n) == [i \in 1..n |-> 0]

\* String.prototype.toLowerCase on an ASCII byte
ToLower(b) == IF b >= 65 /\ b <= 90 THEN b + 32 ELSE b

\* the same search without the toLowerCase() step
IncludesExact(f, limit, pat) ==
    LET n == Min(limit, Size(f)) IN
    \E i \in 0..(n - Len(pat)) :
        \A j \in 1..Len(pat) : At(f, i + j - 1) = pat[j]

\* buffer.toString('utf-8', 0, limit).toLowerCase().includes(pat)
IncludesLower(f, limit, pat) ==
    LET n == Min(limit, Size(f)) IN
    \E i \in 0..(n - Len(pat)) :
        \A j \in 1..Len(pat) : ToLower(At(f, i + j - 1)) = pat[j]

PNG_SIG  == <<137, 80, 78, 71>>                          \* 89 50 4E 47
JPEG_SIG == <<255, 216, 255>>                            \* FF D8 FF
GIF_SIG  == <<71, 73, 70, 56>>                           \* 47 49 46 38
FTYP     == <<102, 116, 121, 112>>                       \* "ftyp"
DOCTYPE  == <<60, 33, 100, 111, 99, 116, 121, 112, 101>> \* "<!doctype"
HTMLTAG  == <<60, 104, 116, 109, 108>>                   \* "<html"
CONFIRM  == <<99, 111, 110, 102, 105, 114, 109, 61>>     \* "confirm="

\* buffer[off .. off+Len(sig)-1] equals sig; a read past the end is undefined
BytesAt(f, off, sig) ==
    \A j \in 1..Len(sig) :
        off + j - 1 < Size(f) /\ At(f, off + j - 1) = sig[j]

MIN_SIZE == 4
TEXT_WINDOW == 100

-----------------------------------------------------------------------------
(* validateFileType *)

\* the video branch with the 'ftyp' test at offset 0 instead of 4
VideoMagicAtZero(f) ==
    IF BytesAt(f, 0, PNG_SIG) THEN FALSE
    ELSE IF IncludesLower(f, TEXT_WINDOW, DOCTYPE)
            \/ IncludesLower(f, TEXT_WINDOW, HTMLTAG) THEN FALSE
    ELSE Size(f) >= 8 /\ BytesAt(f, 0, FTYP)

VideoMagic(f) ==
    IF BytesAt(f, 0, PNG_SIG) THEN FALSE
    ELSE IF IncludesLower(f, TEXT_WINDOW, DOCTYPE)
            \/ IncludesLower(f, TEXT_WINDOW, HTMLTAG) THEN FALSE
    ELSE Size(f) >= 8 /\ BytesAt(f, 4, FTYP)

\* the image branch without the GIF signature
ImageMagicNoGif(f) ==
    BytesAt(f, 0, PNG_SIG) \/ BytesAt(f, 0, JPEG_SIG)

ImageMagic(f) ==
    BytesAt(f, 0, PNG_SIG) \/ BytesAt(f, 0, JPEG_SIG) \/ BytesAt(f, 0, GIF_SIG)

validateFileType(f, expectedType) ==
    IF f = NoFile THEN FALSE                  \* stat throws, caught
    ELSE IF Size(f) < MIN_SIZE THEN FALSE
    ELSE IF expectedType = "video" THEN VideoMagic(f)
    ELSE IF expectedType = "image" THEN ImageMagic(f)
    ELSE TRUE

KindOf(v) == IF v THEN "video" ELSE "image"

-----------------------------------------------------------------------------
(* Validator harness: validateFileType applied to a bounded family of files *)

ValPad == 1

UPPER_DOCTYPE == <<60, 33, 68, 79, 67, 84, 89, 80, 69>>  \* "<!DOCTYPE"
UPPER_HTMLTAG == <<60, 72, 84, 77, 76>>                  \* "<HTML"

ValHeads == { <<0, 0, 0, 24>>, PNG_SIG, <<255, 216, 255, 224>>, GIF_SIG,
              <<60, 104, 116, 109>>, <<0, 0, 0, 0>> }
ValMids  == { FTYP, <<0, 0, 0, 0>>, <<102, 116, 121, 0>> }
ValTails == { <<>>, HTMLTAG, UPPER_HTMLTAG, DOCTYPE, UPPER_DOCTYPE }

\* gaps that put the tail at offset 8, just inside and just outside the window
ValGaps(tail) == {0, TEXT_WINDOW - 8 - Len(tail), TEXT_WINDOW - 8 - Len(tail) + 1}

ValShort == { <<>>, <<137, 80, 78>>, PNG_SIG, <<0, 0, 0, 24, 102, 116, 121>> }

ValFiles ==
    { MkFile(h \o m \o Zeros(g) \o t, Len(h \o m \o Zeros(g) \o t) + p) :
        <<h, m, t, g, p>> \in
            { <<h, m, t, g, p>> \in ValHeads \X ValMids \X ValTails
                                   \X (0..TEXT_WINDOW) \X (0..ValPad) :
                g \in ValGaps(t) } }
    \cup { MkFile(s, Len(s)) : s \in ValShort }

ValKinds == {"video", "image", "other"}

FetchIdle ==
    /\ fn = "none" /\ isVideo = FALSE /\ urlKind = "none" /\ scen = "none"
    /\ pc = "idle" /\ at = "none" /\ budget = 0 /\ redirs = 0 /\ reqs = 0
    /\ derr = "none" /\ disk = NoFile /\ resp = NoResp /\ dl = NoFile
    /\ pages = 0 /\ after = "none" /\ ret = "pending" /\ tried = <<>>
    /\ checked = FALSE /\ ev = "none" /\ asset = NoAsset /\ closeErr = FALSE

ValIdle == vfile = NoFile /\ vkind = "none" /\ vres = "none"

AggIdle ==
    /\ slides = <<>> /\ aggregated = <<>> /\ origin = <<>> /\ loopI = 0
    /\ nonTrivialSlides = <<>> /\ slideIdx = 0 /\ apc = "idle"

RunIdle ==
    /\ aggregatedSlides = <<>> /\ downloadTasks = <<>> /\ tstate = <<>>
    /\ downloadResults = <<>> /\ assetMap = <<>> /\ writes = <<>>
    /\ session = "none" /\ opens = 0 /\ closes = 0 /\ sessErr = FALSE
    /\ rpc = "idle" /\ rexc = FALSE /\ di = 0
    /\ renderLog = <<>> /\ outOfOrder = FALSE /\ htmlMedia = <<>>

RenderIdle ==
    /\ rslide = [none |-> TRUE] /\ rIdx = 0
    /\ mmdExists = FALSE /\ outFile = "none" /\ wrote = FALSE
    /\ engineRes = "notcalled" /\ sharpRes = "notcalled" /\ rret = "none"
    /\ drecord = NoAsset /\ dhtml = "none" /\ rndpc = "idle"

ValInit ==
    /\ vfile \in ValFiles \cup {NoFile}
    /\ vkind \in ValKinds
    /\ vres = "none"
    /\ FetchIdle
    /\ AggIdle
    /\ RunIdle
    /\ RenderIdle

\* the catch block with the error passed on to the caller
ValidateRethrows == "raised"

\* catch (error) { console.warn(...); return false; }
ValidateCatch == "false"

\* one call of validateFileType(vfile, vkind); the file is only read
ValidateCall ==
    /\ vres = "none"
    /\ vres' = IF vfile = NoFile THEN ValidateCatch         \* stat throws
              ELSE IF validateFileType(vfile, vkind) THEN "true" ELSE "false"
    /\ UNCHANGED <<vfile, vkind, fetchVars, aggVars, runVars, renderVars>>

ValNext == ValidateCall

SpecValidate == ValInit /\ [][ValNext]_vars

(* C10 (as stated): validateFileType(file, 'video') returns true for every
   file whose bytes 4 to 7 are 'ftyp', whatever its other bytes are. *)
C10_FtypAlwaysVideo ==
    (vres # "none" /\ vkind = "video" /\ vfile # NoFile
        /\ BytesAt(vfile, 4, FTYP))
    => vres = "true"

(* C10 (amended): validateFileType(file, 'video') returns true for every
   file whose bytes 4 to 7 are 'ftyp', unless its first four bytes are the
   PNG signature or its first 100 bytes, lower-cased, contain '<!doctype'
   or '<html'. *)
C10_FtypVideoUnlessPngOrHtml ==
    (vres # "none" /\ vkind = "video" /\ vfile # NoFile
        /\ BytesAt(vfile, 4, FTYP)
        /\ ~BytesAt(vfile, 0, PNG_SIG)
        /\ ~IncludesLower(vfile, TEXT_WINDOW, DOCTYPE)
        /\ ~IncludesLower(vfile, TEXT_WINDOW, HTMLTAG))
    => vres = "true"

\* an 'ftyp' file with markup just past the inspected window is accepted
C10_Witness ==
    /\ vres = "true" /\ vkind = "video" /\ vfile # NoFile
    /\ BytesAt(vfile, 4, FTYP)
    /\ IncludesLower(vfile, Size(vfile), HTMLTAG)

\* pat occurs at offset i of f, letters compared without regard to case
MatchesAnyCase(f, i, pat) ==
    \A j \in 1..Len(pat) :
        /\ i + j - 1 < Size(f)
        /\ LET b == At(f, i + j - 1) IN
              \/ b = pat[j]
              \/ pat[j] >= 97 /\ pat[j] <= 122 /\ b = pat[j] - 32

\* pat lies wholly inside the first TEXT_WINDOW bytes of f, in any case
InPrefixAnyCase(f, pat) ==
    \E i \in 0..(TEXT_WINDOW - Len(pat)) : MatchesAnyCase(f, i, pat)

(* C11: validateFileType(file, 'video') returns false for every file that
   starts with the PNG signature, for every file whose first 100 bytes
   contain '<!doctype' or '<html' in any letter case, and for every file
   without 'ftyp' at bytes 4 to 7. *)
C11_VideoRejects ==
    (vres # "none" /\ vkind = "video" /\ vfile # NoFile
        /\ \/ BytesAt(vfile, 0, PNG_SIG)
           \/ InPrefixAnyCase(vfile, DOCTYPE)
           \/ InPrefixAnyCase(vfile, HTMLTAG)
           \/ ~BytesAt(vfile, 4, FTYP))
    => vres = "false"

\* an 'ftyp' file carrying an upper-case '<!DOCTYPE' in its prefix is rejected
C11_Witness ==
    /\ vres = "false" /\ vkind = "video" /\ vfile # NoFile
    /\ BytesAt(vfile, 4, FTYP) /\ ~BytesAt(vfile, 0, PNG_SIG)
    /\ \E i \in 0..(TEXT_WINDOW - Len(UPPER_DOCTYPE)) :
          BytesAt(vfile, i, UPPER_DOCTYPE)

(* C12: validateFileType fails closed: for every expected kind it returns
   false for a file shorter than 4 bytes and for a file that does not
   exist, and it returns a boolean in every case (it never raises). *)
C12_FailsClosed ==
    vres # "none" =>
        /\ vres \in {"true", "false"}
        /\ (vfile = NoFile \/ Size(vfile) < MIN_SIZE) => vres = "false"

\* a missing file was refused under the kind that otherwise accepts anything
C12_Witness ==
    vres = "false" /\ vkind = "other" /\ vfile = NoFile

(* C13: validateFileType(file, 'image') returns true exactly when the file
   has at least 4 bytes and starts with the PNG, JPEG or GIF signature (the
   file's name plays no part), and the call leaves the file as it was. *)
C13_ImageExactlySignatures ==
    /\ [](vres # "none" /\ vkind = "image" =>
            (vres = "true" <=>
                /\ vfile # NoFile
                /\ Size(vfile) >= MIN_SIZE
                /\ \/ BytesAt(vfile, 0, PNG_SIG)
                   \/ BytesAt(vfile, 0, JPEG_SIG)
                   \/ BytesAt(vfile, 0, GIF_SIG)))
    /\ [][vfile' = vfile]_vars

\* a GIF was accepted as an image
C13_Witness ==
    /\ vres = "true" /\ vkind = "image" /\ vfile # NoFile
    /\ BytesAt(vfile, 0, GIF_SIG)

-----------------------------------------------------------------------------
(* The fetcher: servers, bodies and the bookkeeping shared by its steps *)

SIZE_LIMIT == 1000          \* stats.size > 1000
MAX_REDIRECTS == 5          \* maxRedirects = 5
MaxRequests == 7            \* cap on the requests fetchResponse is followed for

HtmlTokHead   == UPPER_DOCTYPE \o HTMLTAG \o CONFIRM \o <<65, 98>>
HtmlNoTokHead == UPPER_DOCTYPE \o HTMLTAG
HtmlBareHead  == <<32>> \o UPPER_HTMLTAG \o CONFIRM \o <<116>>
Mp4Head       == <<0, 0, 0, 24>> \o FTYP
PngHead       == PNG_SIG \o <<13, 10, 26, 10>>
JpegHead      == <<255, 216, 255, 224>>
JunkHead      == <<1, 2, 3, 4, 5, 6, 7, 8>>

BodyHeads == {HtmlTokHead, HtmlNoTokHead, HtmlBareHead, Mp4Head, PngHead,
              JpegHead, JunkHead}

\* every head as a short file, at the size limit and just above it; and the
\* empty file
FetchBodies ==
    { MkFile(h, n) : <<h, n>> \in
        { <<h, n>> \in BodyHeads \X (1..(SIZE_LIMIT + 1)) :
            n \in {Len(h), SIZE_LIMIT, SIZE_LIMIT + 1} } }
    \cup { MkFile(<<>>, 0) }

\* [a-zA-Z0-9_-]
TokenChar(b) ==
    \/ (b >= 97 /\ b <= 122) \/ (b >= 65 /\ b <= 90) \/ (b >= 48 /\ b <= 57)
    \/ b = 95 \/ b = 45

\* htmlContent.match(/confirm=([a-zA-Z0-9_-]+)/)
HasToken(body) ==
    \E i \in 0..(Size(body) - Len(CONFIRM) - 1) :
        /\ \A j \in 1..Len(CONFIRM) : At(body, i + j - 1) = CONFIRM[j]
        /\ TokenChar(At(body, i + Len(CONFIRM)))

CTypes == {"text/html", "image/png", "application/octet-stream", "", "video/mp4"}

\* contentType.includes('text/html') || body.toString('utf-8', 0, 100)
\*   .toLowerCase().includes('<!doctype')
IsHtmlResponse(r) ==
    r.ctype = "text/html" \/ IncludesLower(r.body, TEXT_WINDOW, DOCTYPE)

\* extractGoogleDriveId(url) returns an id
extractGoogleDriveId(k) == k = "drive"

\* requests of these sites go to uc?export=download&id=<id>
ExportSites == {"G1", "I1", "I3"}
DirectSites == {"G1", "GT", "G3", "V", "P1", "I1", "I2", "I3", "IP1"}

\* downloadFileDirect(url, outputPath, followRedirects): the flag per call site
FollowRedirects(site) == site # "I1"

InterstitialBodies == { b \in FetchBodies : b.head = HtmlTokHead }

GoodBodies(v) ==
    { b \in FetchBodies : Size(b) > SIZE_LIMIT /\ validateFileType(b, KindOf(v)) }

AnyResponses ==
    { [k |-> "redirect"], [k |-> "http_error"], [k |-> "net_error"],
      [k |-> "write_error"] }
    \cup { [k |-> "ok", body |-> b] : b \in FetchBodies }

\* what the server may answer to a request of downloadFileDirect at `site`
DirectResponses(site) ==
    IF scen = "interstitial" /\ site \in ExportSites
        THEN { [k |-> "ok", body |-> b] : b \in InterstitialBodies }
    ELSE IF scen = "interstitial" /\ site = "GT"
        THEN { [k |-> "ok", body |-> b] : b \in GoodBodies(isVideo) }
    ELSE AnyResponses

\* what the server may answer to a request of fetchResponse (the export URL)
FetchResponses ==
    IF scen = "interstitial"
        THEN { [k |-> "ok", body |-> b, ctype |-> "text/html"] :
                 b \in InterstitialBodies }
    ELSE { [k |-> "redirect"], [k |-> "http_error"], [k |-> "net_error"] }
         \cup { [k |-> "ok", body |-> b, ctype |-> c] :
                  <<b, c>> \in FetchBodies \X {"text/html", ""} }

\* ---- the record of strategies attempted
SetLast(tr, r) ==
    IF tr = <<>> THEN tr ELSE [tr EXCEPT ![Len(tr)].r = r]
\* a strategy still running when the next one starts has failed
Push(tr, strat) ==
    Append(IF tr # <<>> /\ tr[Len(tr)].r = "running"
             THEN SetLast(tr, "failed") ELSE tr,
           [s |-> strat, r |-> "running"])

\* ---- control: where the fetch goes next
GoDirect(site, strat) ==
    /\ pc' = site /\ at' = "req" /\ budget' = MAX_REDIRECTS
    /\ redirs' = 0 /\ reqs' = 0 /\ derr' = "none"
    /\ tried' = Push(tried, strat)

GoFetch ==
    /\ pc' = "G2" /\ at' = "fetch" /\ budget' = 0
    /\ redirs' = 0 /\ reqs' = 0 /\ derr' = "none"
    /\ tried' = Push(tried, "interstitial")

GoBrowser(site) ==
    /\ pc' = site /\ at' = "none" /\ budget' = 0
    /\ redirs' = 0 /\ reqs' = 0 /\ derr' = "none"
    /\ tried' = Push(tried, "browser")

GoTo(site, outcome) ==
    /\ pc' = site /\ at' = "none" /\ budget' = 0
    /\ redirs' = 0 /\ reqs' = 0 /\ derr' = "none"
    /\ tried' = SetLast(tried, outcome)

\* ---- the file at outputPath
Keep     == UNCHANGED <<disk, checked>> /\ ev' = "none"
Write(b) == disk' = b /\ checked' = FALSE /\ ev' = "none"
Unlink   == disk' = NoFile /\ checked' = FALSE /\ ev' = "none"
Accepted == UNCHANGED disk /\ checked' = TRUE /\ ev' = "accepted"
RejectedUnlink == disk' = NoFile /\ checked' = FALSE /\ ev' = "rejected"
RejectedKeep   == UNCHANGED <<disk, checked>> /\ ev' = "rejected"

\* return <value> straight out of the fetch (no page is open)
Return(v) == ret' = v /\ UNCHANGED <<resp, dl, pages, after, asset>>
NoReturn  == UNCHANGED <<resp, dl, pages, after, ret, asset>>

cfgVars == <<fn, isVideo, urlKind, scen>>

FetchInit ==
    /\ fn \in {"downloadFile", "downloadImage"}
    /\ isVideo \in BOOLEAN
    /\ fn = "downloadImage" => ~isVideo
    /\ urlKind \in {"drive", "plain", "empty"}
    /\ scen \in {"any", "interstitial"}
    /\ scen = "interstitial" => urlKind = "drive"
    /\ pc = "start" /\ at = "none" /\ budget = 0 /\ redirs = 0 /\ reqs = 0
    /\ derr = "none" /\ disk = NoFile /\ resp = NoResp /\ dl = NoFile
    /\ pages = 0 /\ after = "none" /\ ret = "pending" /\ tried = <<>>
    /\ checked = FALSE /\ ev = "none" /\ asset = NoAsset /\ closeErr = FALSE
    /\ ValIdle
    /\ AggIdle
    /\ RunIdle
    /\ RenderIdle

-----------------------------------------------------------------------------
(* downloadFile / downloadImage: entry *)

Enter ==
    /\ pc = "start"
    /\ IF urlKind = "empty"
         THEN GoTo("returned", "failed") /\ Keep /\ Return("null")
         ELSE /\ Keep /\ NoReturn
              /\ IF fn = "downloadFile"
                   THEN IF extractGoogleDriveId(urlKind)
                          THEN GoDirect("G1", "direct")
                          ELSE GoDirect("P1", "direct")
                   ELSE IF extractGoogleDriveId(urlKind)
                          THEN GoDirect("I1", "direct")
                          ELSE GoDirect("IP1", "direct")
    /\ UNCHANGED <<cfgVars, closeErr, valVars, aggVars, runVars, renderVars>>

-----------------------------------------------------------------------------
(* downloadFileDirect: one request (or the budget test that precedes it) *)

\* if (maxRedirects <= 0) reject('Too many redirects')
BudgetExhausted(b) == b <= 0

DirectRequest ==
    /\ pc \in DirectSites /\ at = "req"
    /\ IF BudgetExhausted(budget)
         THEN /\ at' = "err" /\ derr' = "too_many_redirects"
              /\ UNCHANGED <<budget, redirs, reqs>> /\ Keep
         ELSE \E r \in DirectResponses(pc) :
              /\ reqs' = reqs + 1
              /\ CASE r.k = "redirect" /\ FollowRedirects(pc) ->
                        /\ budget' = budget - 1 /\ redirs' = redirs + 1
                        /\ UNCHANGED <<at, derr>> /\ Keep
                   [] r.k = "redirect" /\ ~FollowRedirects(pc) ->
                        /\ at' = "err" /\ derr' = "http_status"
                        /\ UNCHANGED <<budget, redirs>> /\ Keep
                   [] r.k = "http_error" ->
                        /\ at' = "err" /\ derr' = "http_status"
                        /\ UNCHANGED <<budget, redirs>> /\ Keep
                   [] r.k = "net_error" ->
                        /\ at' = "err" /\ derr' = "network"
                        /\ UNCHANGED <<budget, redirs>> /\ Keep
                   [] r.k = "write_error" ->
                        /\ at' = "err" /\ derr' = "stream"
                        /\ UNCHANGED <<budget, redirs>> /\ Unlink
                   [] r.k = "ok" ->
                        /\ at' = "ok" /\ UNCHANGED <<budget, redirs, derr>>
                        /\ Write(r.body)
    /\ UNCHANGED <<pc, tried>> /\ NoReturn
    /\ UNCHANGED <<cfgVars, closeErr, valVars, aggVars, runVars, renderVars>>

-----------------------------------------------------------------------------
(* downloadGoogleDriveFile, and the rest of downloadFile's share-link path *)

WriteAccepted(b)       == disk' = b /\ checked' = TRUE /\ ev' = "accepted"
WriteRejectedUnlink    == disk' = NoFile /\ checked' = FALSE /\ ev' = "rejected"
WriteRejectedKeep(b)   == disk' = b /\ checked' = FALSE /\ ev' = "rejected"

\* if (!isVideo) { ... export=view ... }
TriesViewAlways(v) == TRUE
TriesView(v) == ~v

\* downloadGoogleDriveFile returned null: view URL for images, else Playwright
AfterDriveNull ==
    IF TriesView(isVideo) THEN GoDirect("V", "view") ELSE GoBrowser("B0")

\* the continuation of a direct download inside downloadGoogleDriveFile:
\* accept a file of more than 1000 bytes that validates, delete one that
\* does not validate, leave a smaller one where it is
DriveCheck(next) ==
    IF at = "ok" /\ Size(disk) > SIZE_LIMIT
      THEN IF validateFileType(disk, KindOf(isVideo))
             THEN GoTo("returned", "accepted") /\ Accepted /\ Return("path")
             ELSE RejectedUnlink /\ next /\ NoReturn
      ELSE Keep /\ next /\ NoReturn

G1Check ==
    /\ pc = "G1" /\ at \in {"ok", "err"}
    /\ DriveCheck(GoFetch)
    /\ UNCHANGED <<cfgVars, closeErr, valVars, aggVars, runVars, renderVars>>

\* fetchResponse: one request; a redirect is followed without any budget
FetchRequest ==
    /\ pc = "G2" /\ at = "fetch" /\ reqs < MaxRequests
    /\ \E r \in FetchResponses :
         CASE r.k = "redirect" ->
                /\ reqs' = reqs + 1
                /\ UNCHANGED <<pc, at, budget, redirs, derr, tried>>
                /\ Keep /\ NoReturn
           [] r.k \in {"http_error", "net_error"} ->
                AfterDriveNull /\ Keep /\ NoReturn
           [] r.k = "ok" ->
                /\ resp' = [body |-> r.body, ctype |-> r.ctype]
                /\ reqs' = reqs + 1 /\ pc' = "G2h" /\ at' = "none"
                /\ UNCHANGED <<budget, redirs, derr, tried>>
                /\ Keep /\ UNCHANGED <<dl, pages, after, ret, asset>>
    /\ UNCHANGED <<cfgVars, closeErr, valVars, aggVars, runVars, renderVars>>

\* the response of fetchResponse: markup is searched for the token, anything
\* else of more than 1000 bytes is saved and validated
G2Handle ==
    /\ pc = "G2h"
    /\ resp' = NoResp
    /\ IF IsHtmlResponse(resp)
         THEN /\ IF HasToken(resp.body)
                   THEN GoDirect("GT", "token")
                   ELSE GoDirect("G3", "confirm")
              /\ Keep /\ UNCHANGED <<dl, pages, after, ret, asset>>
         ELSE IF Size(resp.body) > SIZE_LIMIT
           THEN IF validateFileType(resp.body, KindOf(isVideo))
                  THEN /\ GoTo("returned", "accepted")
                       /\ WriteAccepted(resp.body)
                       /\ ret' = "path"
                       /\ UNCHANGED <<dl, pages, after, asset>>
                  ELSE /\ AfterDriveNull /\ WriteRejectedUnlink
                       /\ UNCHANGED <<dl, pages, after, ret, asset>>
           ELSE /\ AfterDriveNull /\ Keep
                /\ UNCHANGED <<dl, pages, after, ret, asset>>
    /\ UNCHANGED <<cfgVars, closeErr, valVars, aggVars, runVars, renderVars>>

GTCheck ==
    /\ pc = "GT" /\ at \in {"ok", "err"}
    /\ DriveCheck(GoDirect("G3", "confirm"))
    /\ UNCHANGED <<cfgVars, closeErr, valVars, aggVars, runVars, renderVars>>

G3Check ==
    /\ pc = "G3" /\ at \in {"ok", "err"}
    /\ DriveCheck(AfterDriveNull)
    /\ UNCHANGED <<cfgVars, closeErr, valVars, aggVars, runVars, renderVars>>

\* downloadFile, step 2 (images): the view URL, accepted on its size
ViewCheck ==
    /\ pc = "V" /\ at \in {"ok", "err"}
    /\ IF at = "ok"
         THEN IF Size(disk) > SIZE_LIMIT
                THEN GoTo("returned", "accepted") /\ Keep /\ Return("path")
                ELSE Unlink /\ GoBrowser("B0") /\ NoReturn
         ELSE Keep /\ GoBrowser("B0") /\ NoReturn
    /\ UNCHANGED <<cfgVars, closeErr, valVars, aggVars, runVars, renderVars>>

-----------------------------------------------------------------------------
(* Playwright fallbacks: a page, the steps on it, and the finally block *)

\* const page = await <context|browser>.newPage(): a page, or an exception
OpenPage(from, to) ==
    /\ pc = from
    /\ \/ GoTo(to, "running") /\ pages' = pages + 1
       \/ GoTo("catch", "failed") /\ UNCHANGED pages
    /\ Keep /\ UNCHANGED <<resp, dl, after, ret, asset>>
    /\ UNCHANGED <<cfgVars, closeErr, valVars, aggVars, runVars, renderVars>>

\* the page closed at the end of the try block only, so that an exception
\* passes it by
LeaveNoFinally(how) ==
    /\ after' = IF how = "throw" THEN "none" ELSE how
    /\ GoTo(IF how = "throw" THEN "catch" ELSE "close",
            IF how = "return" THEN "accepted" ELSE "failed")
    /\ UNCHANGED <<resp, pages, ret, asset>>

\* leave the try block: "return" outputPath, "throw", or "fall" off its end
Leave(how) ==
    /\ after' = how
    /\ GoTo("close", IF how = "return" THEN "accepted" ELSE "failed")
    /\ UNCHANGED <<resp, pages, ret, asset>>

BrowserOpen == OpenPage("B0", "B1")

\* downloadFile lines 355-407: navigation, and for a video that landed on
\* googleusercontent the response body saved and validated
BrowserNavigate ==
    /\ pc = "B1"
    /\ \/ Leave("throw") /\ Keep /\ UNCHANGED dl
       \/ /\ GoTo("B1b", "running") /\ Keep
          /\ UNCHANGED <<resp, dl, pages, after, ret, asset>>
       \/ /\ isVideo
          /\ \E b \in FetchBodies :
               IF Size(b) > SIZE_LIMIT
                 THEN IF validateFileType(b, KindOf(isVideo))
                        THEN Leave("return") /\ WriteAccepted(b) /\ UNCHANGED dl
                        ELSE /\ GoTo("B1b", "running") /\ WriteRejectedUnlink
                             /\ UNCHANGED <<resp, dl, pages, after, ret, asset>>
                 ELSE /\ GoTo("B1b", "running") /\ Keep
                      /\ UNCHANGED <<resp, dl, pages, after, ret, asset>>
    /\ UNCHANGED <<cfgVars, closeErr, valVars, aggVars, runVars, renderVars>>

\* lines 370-456: the download event, at once or after a click, or none
BrowserButtons ==
    /\ pc = "B1b"
    /\ \E d \in FetchBodies \cup {NoFile} : dl' = d
    /\ GoTo("B2", "running") /\ Keep
    /\ UNCHANGED <<resp, pages, after, ret, asset>>
    /\ UNCHANGED <<cfgVars, closeErr, valVars, aggVars, runVars, renderVars>>

\* lines 459-472: download.saveAs, then size > 0 and the validator
BrowserSave ==
    /\ pc = "B2"
    /\ dl' = NoFile
    /\ IF dl = NoFile
         THEN Leave("fall") /\ Keep
         ELSE \/ Leave("throw") /\ Keep
              \/ IF Size(dl) > 0
                   THEN IF validateFileType(dl, KindOf(isVideo))
                          THEN Leave("return") /\ WriteAccepted(dl)
                          ELSE Leave("fall") /\ WriteRejectedUnlink
                   ELSE Leave("fall") /\ Write(dl)
    /\ UNCHANGED <<cfgVars, closeErr, valVars, aggVars, runVars, renderVars>>

\* finally { await page.close() }, then what the try block was doing
PageClose ==
    /\ pc = "close"
    /\ after' = "none"
    /\ \/ /\ pages' = pages - 1 /\ UNCHANGED closeErr
          /\ CASE after = "return" ->
                    GoTo("returned", "accepted") /\ ret' = "path"
               [] after = "fall" ->
                    GoTo("returned", "failed") /\ ret' = "null"
               [] after = "throw" ->
                    GoTo("catch", "failed") /\ UNCHANGED ret
       \/ /\ UNCHANGED <<pages, ret>> /\ closeErr' = TRUE   \* close() threw
          /\ GoTo("catch", tried[Len(tried)].r)
    /\ UNCHANGED <<disk, checked>> /\ ev' = "none"
    /\ UNCHANGED <<resp, dl, asset>>
    /\ UNCHANGED <<cfgVars, valVars, aggVars, runVars, renderVars>>

\* catch (error) { console.warn(...); return null; }
CatchRethrows == "raised"
CatchValue == "null"

OuterCatch ==
    /\ pc = "catch"
    /\ ret' = CatchValue
    /\ GoTo("returned", tried[Len(tried)].r)
    /\ UNCHANGED <<disk, checked>> /\ ev' = "none"
    /\ UNCHANGED <<resp, dl, pages, after, asset>>
    /\ UNCHANGED <<cfgVars, closeErr, valVars, aggVars, runVars, renderVars>>

-----------------------------------------------------------------------------
(* downloadFile, regular URL (lines 476-506) *)

\* the try block: a non-empty file that validates is returned; an empty or
\* rejected one falls out of the try to the final return null; only a
\* rejection of downloadFileDirect (or of stat) reaches the catch block
PlainCheck ==
    /\ pc = "P1" /\ at \in {"ok", "err"}
    /\ IF at = "ok"
         THEN IF Size(disk) > 0
                THEN IF validateFileType(disk, KindOf(isVideo))
                       THEN /\ GoTo("returned", "accepted") /\ Accepted
                            /\ Return("path")
                       ELSE /\ GoTo("returned", "failed") /\ RejectedKeep
                            /\ Return("null")
                ELSE GoTo("returned", "failed") /\ Keep /\ Return("null")
         ELSE GoBrowser("PB0") /\ Keep /\ NoReturn
    /\ UNCHANGED <<cfgVars, closeErr, valVars, aggVars, runVars, renderVars>>

PlainBrowserOpen == OpenPage("PB0", "PB1")

\* page.goto(url), response.body(), writeFile, validateFileType
PlainBrowserGoto ==
    /\ pc = "PB1"
    /\ \/ Leave("throw") /\ Keep
       \/ Leave("fall") /\ Keep                      \* no response
       \/ \E b \in FetchBodies :
            IF Size(b) > 0
              THEN IF validateFileType(b, KindOf(isVideo))
                     THEN Leave("return") /\ WriteAccepted(b)
                     ELSE Leave("fall") /\ WriteRejectedKeep(b)
              ELSE Leave("fall") /\ Keep
    /\ UNCHANGED dl
    /\ UNCHANGED <<cfgVars, closeErr, valVars, aggVars, runVars, renderVars>>

-----------------------------------------------------------------------------
(* downloadImage (lines 522-711): no step of it calls validateFileType *)

\* steps 1-3 of the share-link path: a file of more than 1000 bytes is
\* returned, anything else is left where it is
ImageDirectCheck ==
    /\ pc \in {"I1", "I2", "I3"} /\ at \in {"ok", "err"}
    /\ Keep
    /\ IF at = "ok" /\ Size(disk) > SIZE_LIMIT
         THEN GoTo("returned", "accepted") /\ Return("path")
         ELSE /\ NoReturn
              /\ CASE pc = "I1" -> GoDirect("I2", "view")
                   [] pc = "I2" -> GoDirect("I3", "direct")
                   [] pc = "I3" -> GoBrowser("IB0")
    /\ UNCHANGED <<cfgVars, closeErr, valVars, aggVars, runVars, renderVars>>

ImgBrowserOpen == OpenPage("IB0", "IB1")

\* lines 576-644: navigation and the download event, or none
ImgBrowserNavigate ==
    /\ pc = "IB1"
    /\ \/ Leave("throw") /\ UNCHANGED dl
       \/ /\ \E d \in FetchBodies \cup {NoFile} : dl' = d
          /\ GoTo("IB2", "running")
          /\ UNCHANGED <<resp, pages, after, ret, asset>>
    /\ Keep
    /\ UNCHANGED <<cfgVars, closeErr, valVars, aggVars, runVars, renderVars>>

\* lines 647-654: saveAs, returned when not empty
ImgBrowserSave ==
    /\ pc = "IB2"
    /\ dl' = NoFile
    /\ IF dl = NoFile
         THEN /\ GoTo("IB3", "running") /\ Keep
              /\ UNCHANGED <<resp, pages, after, ret, asset>>
         ELSE \/ Leave("throw") /\ Keep
              \/ /\ Write(dl)
                 /\ IF Size(dl) > 0
                      THEN Leave("return")
                      ELSE /\ GoTo("IB3", "running")
                           /\ UNCHANGED <<resp, pages, after, ret, asset>>
    /\ UNCHANGED <<cfgVars, closeErr, valVars, aggVars, runVars, renderVars>>

\* contentType.startsWith('image/') || 'application/octet-stream' || !contentType
ImageContentType(c) == c \in {"image/png", "application/octet-stream", ""}

\* lines 656-676: page.goto(downloadUrl) and the body of its response
ImgBrowserFallback ==
    /\ pc = "IB3"
    /\ \/ Leave("fall") /\ Keep           \* exception caught, or no response
       \/ \E st \in {200, 404}, c \in CTypes, b \in FetchBodies :
            IF st = 200 /\ ImageContentType(c) /\ Size(b) > 0
              THEN Leave("return") /\ Write(b)
              ELSE Leave("fall") /\ Keep
    /\ UNCHANGED dl
    /\ UNCHANGED <<cfgVars, closeErr, valVars, aggVars, runVars, renderVars>>

\* regular URL: a non-empty file is returned as it is
ImgPlainCheck ==
    /\ pc = "IP1" /\ at \in {"ok", "err"}
    /\ Keep
    /\ IF at = "ok"
         THEN IF Size(disk) > 0
                THEN GoTo("returned", "accepted") /\ Return("path")
                ELSE GoTo("returned", "failed") /\ Return("null")
         ELSE GoBrowser("IPB0") /\ NoReturn
    /\ UNCHANGED <<cfgVars, closeErr, valVars, aggVars, runVars, renderVars>>

ImgPlainBrowserOpen == OpenPage("IPB0", "IPB1")

ImgPlainBrowserGoto ==
    /\ pc = "IPB1"
    /\ \/ Leave("throw") /\ Keep
       \/ Leave("fall") /\ Keep
       \/ \E b \in FetchBodies :
            IF Size(b) > 0
              THEN Leave("return") /\ Write(b)
              ELSE Leave("fall") /\ Keep
    /\ UNCHANGED dl
    /\ UNCHANGED <<cfgVars, closeErr, valVars, aggVars, runVars, renderVars>>

-----------------------------------------------------------------------------
(* generatePresentation: the download task around the fetch (1084-1129) *)

\* videos go through downloadVideo = downloadFile(.., true), images through
\* downloadImage; downloadFile(.., false) is the function called on its own
Dispatched == (fn = "downloadFile" /\ isVideo) \/ fn = "downloadImage"

RecordTask ==
    /\ pc = "returned" /\ Dispatched /\ urlKind # "empty"
    /\ pc' = "done"
    /\ IF isVideo
         THEN IF ret = "path"
                THEN IF validateFileType(disk, "video")
                       THEN /\ asset' = [kind |-> "video", path |-> "path"]
                            /\ Accepted
                       ELSE /\ asset' = [kind |-> "video_failed", path |-> "null"]
                            /\ RejectedUnlink
                ELSE /\ asset' = [kind |-> "video_failed", path |-> "null"]
                     /\ Keep
         ELSE /\ Keep
              /\ IF ret = "path"
                   THEN asset' = [kind |-> "image", path |-> "path"]
                   ELSE asset' = [kind |-> "image_failed", path |-> "null"]
    /\ UNCHANGED <<at, budget, redirs, reqs, derr, resp, dl, pages, after,
                   ret, tried>>
    /\ UNCHANGED <<cfgVars, closeErr, valVars, aggVars, runVars, renderVars>>

FetchNext ==
    \/ Enter \/ DirectRequest
    \/ G1Check \/ FetchRequest \/ G2Handle \/ GTCheck \/ G3Check \/ ViewCheck
    \/ BrowserOpen \/ BrowserNavigate \/ BrowserButtons \/ BrowserSave
    \/ PageClose \/ OuterCatch
    \/ PlainCheck \/ PlainBrowserOpen \/ PlainBrowserGoto
    \/ ImageDirectCheck \/ ImgBrowserOpen \/ ImgBrowserNavigate
    \/ ImgBrowserSave \/ ImgBrowserFallback
    \/ ImgPlainCheck \/ ImgPlainBrowserOpen \/ ImgPlainBrowserGoto
    \/ RecordTask

SpecFetch == FetchInit /\ [][FetchNext]_vars

TypeOKFetch ==
    /\ ret \in {"pending", "path", "null", "raised"}
    /\ pages \in 0..1
    /\ budget \in 0..MAX_REDIRECTS
    /\ reqs \in 0..MaxRequests
    /\ disk = NoFile \/ disk \in FetchBodies

-----------------------------------------------------------------------------
(* Claims about the fetcher *)

Kind == KindOf(isVideo)
Returned == pc \in {"returned", "done"}
AllFailed == \A i \in 1..Len(tried) : tried[i].r = "failed"
Count(strat) == Cardinality({ i \in 1..Len(tried) : tried[i].s = strat })

(* C1: whenever a fetch returns a non-null path for kind k, and whenever the
   download task records an AssetResult of kind image or video, the file at
   that path has passed validateFileType and is valid for k. *)
C1_AcceptedFileValidated ==
    /\ ret = "path" => (disk # NoFile /\ checked /\ validateFileType(disk, Kind))
    /\ (asset # NoAsset /\ asset.kind \in {"image", "video"})
          => (disk # NoFile /\ checked /\ validateFileType(disk, Kind))

(* C2: when every retrieval strategy of a fetch made by a download task has
   failed, the fetch returns null and no file exists at the destination
   path. *)
C2_NullLeavesNoFile ==
    (Dispatched /\ Returned /\ urlKind # "empty" /\ AllFailed)
        => (ret = "null" /\ disk = NoFile)

(* C3: a fetch never raises to its caller: whatever request, browser step or
   validation failed, it has returned the destination path or null. *)
C3_NeverRaises ==
    /\ ret # "raised"
    /\ Returned => ret \in {"path", "null"}

\* page.close() threw in the finally block and the fetch still returned null
C3_Witness == pc = "returned" /\ ret = "null" /\ pages = 1

(* C4: whenever, in a fetch made by a download task, the validator rejects
   a file a strategy retrieved, the file is deleted and, unless that
   strategy was the last one (browser automation), the next strategy has
   been started. *)
C4_RejectedDeletedAndNext ==
    (Dispatched /\ ev = "rejected" /\ pc # "done")
        => /\ disk = NoFile
           /\ tried[Len(tried)].s = "browser" \/ tried[Len(tried)].r = "running"

(* C5: for a URL that is not a share link a download task's fetch attempts
   only direct retrieval and browser automation, and when it returns null
   it has made one browser-automation attempt. *)
C5_PlainFailureGoesToBrowser ==
    (Dispatched /\ urlKind = "plain")
        => /\ \A i \in 1..Len(tried) : tried[i].s \in {"direct", "browser"}
           /\ (Returned /\ ret = "null") => Count("browser") = 1

(* C6: when the export endpoint answers with an HTML interstitial that
   carries a confirmation token and the token URL serves a valid file of
   the expected kind, the fetch (downloadVideo for a video, downloadImage
   for an image) returns a path whose content is valid for that kind. *)
C6_InterstitialYieldsValid ==
    (scen = "interstitial" /\ Dispatched /\ Returned)
        => (ret = "path" /\ validateFileType(disk, Kind))

\* the video half of C6 on its own
C6_VideoHalf ==
    (scen = "interstitial" /\ fn = "downloadFile" /\ Returned)
        => (ret = "path" /\ validateFileType(disk, Kind))

Rank(strat) ==
    CASE strat = "direct" -> 1 [] strat = "interstitial" -> 2
      [] strat = "token" -> 3  [] strat = "confirm" -> 4
      [] strat = "view" -> 5   [] strat = "browser" -> 6

(* C7: downloadFile on a share link attempts its strategies in the fixed
   order direct export download, (interstitial fetch and) token retry,
   generic confirm flag, view endpoint (images only), browser automation;
   a strategy starts only after every earlier one failed, and none starts
   after one was accepted. *)
C7_FixedStrategyOrder ==
    (fn = "downloadFile" /\ urlKind = "drive")
        => /\ \A i, j \in 1..Len(tried) :
                i < j => Rank(tried[i].s) < Rank(tried[j].s)
           /\ \A i \in 1..(Len(tried) - 1) : tried[i].r = "failed"
           /\ \A i \in 1..Len(tried) :
                /\ tried[i].s = "view" => ~isVideo
                /\ tried[i].s = "token" => (i > 1 /\ tried[i-1].s = "interstitial")
           /\ (tried # <<>> /\ tried[Len(tried)].r = "accepted")
                => pc \in {"close", "catch", "returned", "done"}
           /\ (Returned /\ ret = "path") => tried[Len(tried)].r = "accepted"

\* an image fetch that went through all six steps and was accepted by the last
C7_Witness ==
    /\ fn = "downloadFile" /\ urlKind = "drive" /\ ~isVideo
    /\ Len(tried) = 6 /\ ret = "path"

(* C8: every strategy of a download task's fetch issues a bounded number of
   requests, at most the redirect budget, also against a server that
   answers every request with a redirect. *)
C8_RequestsBounded == Dispatched => reqs <= MAX_REDIRECTS

(* C9: direct retrieval started with a budget of 5 follows up to 5
   redirects, each redirect taking one from the budget, and rejects for too
   many redirects only when the chain is longer than that; a rejected call
   has written nothing. *)
C9_FollowsFiveRedirects ==
    (Dispatched /\ pc \in DirectSites /\ FollowRedirects(pc))
        => /\ budget + redirs = MAX_REDIRECTS
           /\ derr = "too_many_redirects" => redirs > MAX_REDIRECTS
           /\ (derr = "too_many_redirects" /\ Len(tried) = 1) => disk = NoFile

(* C29: every page a browser fallback attempt opens is closed by that
   attempt on every exit path (accepted file, failure, exception): the
   attempt holds at most one page, its own, a page is open only while the
   attempt is inside its try block, and when the fetch returns no page it
   opened is left without page.close() having been called on it (a page
   survives only a page.close() that itself raised). *)
C29_PagesClosedOnEveryPath ==
    /\ pages \in 0..1
    /\ (pages = 1 /\ ~closeErr) =>
          pc \in {"B1", "B1b", "B2", "PB1", "IB1", "IB2", "IB3", "IPB1", "close"}
    /\ Returned => (pages = 0 \/ closeErr)

\* a browser attempt failed, its page was closed, and the fetch returned null
C29_Witness ==
    /\ pc = "returned" /\ ret = "null" /\ pages = 0 /\ ~closeErr
    /\ tried # <<>> /\ tried[Len(tried)].s = "browser"

-----------------------------------------------------------------------------
(* aggregateSlides: slides, content blocks and their text                   *)
(*                                                                          *)
(* A text is the sequence of its words (single-spaced, trimmed); the empty  *)
(* text is <<>>.  A title is a text; a missing title is <<>>.  A slide is   *)
(* [type, title, content, group]; group is "absent" on an input slide and   *)
(* holds the _group field on a derived one.                                 *)

MAX_ITEMS_PER_SLIDE == 10
MaxSlides == 3

BASE_TITLE == <<"System", "Requirements">>          \* baseTitle
SECTION_NAMES == { <<"Network">>, <<"Camera">>, <<"AI", "Training">>,
                   <<"AI", "Inference">>, <<"Dashboard">> }

\* String.prototype.toLowerCase on a word of the vocabulary
LowerWord(w) ==
    CASE w = "None"     -> "none"
      [] w = "Required" -> "required"
      [] w = "Standard" -> "standard"
      [] w = "Source"   -> "source"
      [] w = "Power:"   -> "power:"
      [] OTHER          -> w

\* the category test without the test of slide.type
IsSystemRequirementsAnyType(s) ==
    /\ s.title # <<>>
    /\ \/ Len(s.title) >= 2 /\ s.title[1] = "System"
                            /\ s.title[2] = "Requirements:"
       \/ s.title = BASE_TITLE

\* slide.type === 'content_bullets' && slide.title &&
\* (title.startsWith('System Requirements:') || title === 'System Requirements')
IsSystemRequirements(s) ==
    /\ s.type = "content_bullets"
    /\ s.title # <<>>
    /\ \/ Len(s.title) >= 2 /\ s.title[1] = "System"
                            /\ s.title[2] = "Requirements:"
       \/ s.title = BASE_TITLE

\* content.map(c => c.text || '').join(' ') as a word sequence: an empty
\* text contributes one empty word (two spaces in a row in the joined text)
RECURSIVE JoinTexts(_)
JoinTexts(content) ==
    IF content = <<>> THEN <<>>
    ELSE (IF Head(content).text = <<>> THEN <<"">> ELSE Head(content).text)
         \o JoinTexts(Tail(content))

\* joined.toLowerCase().includes('<w1> <w2>')
IncludesPhrase(words, w1, w2) ==
    \E k \in 1..(Len(words) - 1) :
        LowerWord(words[k]) = w1 /\ LowerWord(words[k + 1]) = w2

\* joined.toLowerCase().match(/^power\s*:\s*standard/i)
StartsPowerStandard(words) ==
    /\ Len(words) >= 2
    /\ LowerWord(words[1]) = "power:"
    /\ LowerWord(words[2]) = "standard"

\* the predicate of systemReqSlides.filter(...)
NonTrivial(s) ==
    LET text == JoinTexts(s.content) IN
    /\ ~IncludesPhrase(text, "none", "required")
    /\ ~IncludesPhrase(text, "standard", "source")
    /\ ~StartsPowerStandard(text)
    /\ Len(s.content) > 2

\* item.level === 0 && !text.includes(':') && [names].includes(text)
IsSectionHeader(item) ==
    item.level = 0 /\ item.text \in SECTION_NAMES

\* sectionBoundaries: the (1-based) positions of the section headers, ascending
RECURSIVE BoundariesFrom(_, _)
BoundariesFrom(content, k) ==
    IF k > Len(content) THEN <<>>
    ELSE (IF IsSectionHeader(content[k]) THEN <<k>> ELSE <<>>)
         \o BoundariesFrom(content, k + 1)

sectionBoundaries(content) == BoundariesFrom(content, 1)

\* sectionName.toLowerCase().replace(/\s+/g, '_')
GroupOf(name) ==
    CASE name = <<"Network">>         -> "network"
      [] name = <<"Camera">>          -> "camera"
      [] name = <<"AI", "Training">>  -> "ai_training"
      [] name = <<"AI", "Inference">> -> "ai_inference"
      [] name = <<"Dashboard">>       -> "dashboard"

\* `${baseTitle}: ${sectionName}`
SectionTitle(name) == <<"System", "Requirements:">> \o name

\* the end of every segment taken to be the end of the content
SegmentEndAlwaysLast(content, bounds, secIdx) == Len(content)

\* endIdx of the secIdx-th segment, as the (1-based) position of its last block
SegmentEnd(content, bounds, secIdx) ==
    IF secIdx < Len(bounds) THEN bounds[secIdx + 1] - 1 ELSE Len(content)

\* the midpoint rounded down instead of up
midPointFloor(n) == n \div 2

\* Math.ceil(content.length / 2)
midPoint(n) == (n + 1) \div 2

\* the name of the first header taken whenever the slide has any header
AsIsSectionNameFirst(content) ==
    LET b == sectionBoundaries(content) IN
    IF Len(b) >= 1 THEN content[b[1]].text ELSE <<>>

\* sectionBoundaries.length === 1 ? sectionBoundaries[0].name : ''
AsIsSectionName(content) ==
    LET b == sectionBoundaries(content) IN
    IF Len(b) = 1 THEN content[b[1]].text ELSE <<>>

-----------------------------------------------------------------------------
(* aggregateSlides: the inputs it is applied to *)

Header(name) == [level |-> 0, text |-> name]

\* n distinct specification lines, numbered from + 1 .. from + n
Fill(from, n) ==
    [k \in 1..n |-> [level |-> 1, text |-> <<"spec:", ToString(from + k)>>]]

Line(level, text) == <<[level |-> level, text |-> text]>>

Slide(type, title, content) ==
    [type |-> type, title |-> title, content |-> content, group |-> "absent"]

HARDWARE_TITLE == <<"System", "Requirements:", "Hardware">>

\* contents of System Requirements slides that pass the filter
LongContents ==
    { <<Header(<<"Network">>)>> \o Fill(0, 5)
          \o <<Header(<<"Camera">>)>> \o Fill(5, 5),          \* 12, two headers
      Fill(0, 1) \o <<Header(<<"Network">>)>> \o Fill(1, 4)
          \o <<Header(<<"Camera">>)>> \o Fill(5, 4),          \* 11, preamble
      <<Header(<<"Network">>)>> \o Fill(0, 13),               \* 14, one header
      <<Header(<<"Dashboard">>)>> \o Fill(0, 10),             \* 11, one header
      Fill(0, 11) }                                           \* 11, no header

ShortContents ==
    { <<Header(<<"Network">>)>> \o Fill(0, 2)
          \o <<Header(<<"Camera">>)>> \o Fill(2, 2),          \* 6, two headers
      <<Header(<<"AI", "Training">>)>> \o Fill(0, 3),         \* 4, one header
      Line(1, <<"Network">>) \o Fill(0, 2)
          \o Line(1, <<"Power:", "Standard", "AC">>) }        \* name at level 1

\* contents the filter removes
FilteredContents ==
    { Line(1, <<"None", "Required">>),                        \* phrase, short
      Fill(0, 2),                                             \* short only
      Fill(0, 3) \o Line(1, <<"Standard", "Source">>),        \* phrase only
      Line(1, <<"Power:", "Standard", "AC">>) \o Fill(0, 2) }

SystemRequirementsSlides ==
    { Slide("content_bullets", BASE_TITLE, c) :
        c \in LongContents \cup FilteredContents }
    \cup { Slide("content_bullets", HARDWARE_TITLE, c) : c \in ShortContents }

OtherSlides ==
    { Slide("content_table", BASE_TITLE, Fill(0, 3)),
      Slide("content_bullets", <<>>, <<Header(<<"Network">>)>> \o Fill(0, 11)),
      Slide("content_bullets", <<"System", "Requirements", "Summary">>,
            Fill(0, 2)) }

SlideCatalogue == SystemRequirementsSlides \cup OtherSlides

SlideLists ==
    UNION { [1..n -> SlideCatalogue] : n \in 0..MaxSlides }

-----------------------------------------------------------------------------
(* aggregateSlides: one call, one action per loop iteration or forEach step *)

AggInit ==
    /\ slides \in SlideLists
    /\ aggregated = <<>> /\ origin = <<>> /\ loopI = 0
    /\ nonTrivialSlides = <<>> /\ slideIdx = 0 /\ apc = "loop"
    /\ ValIdle
    /\ FetchIdle
    /\ RunIdle
    /\ RenderIdle

\* the (1-based) position of the last slide of the run that starts at k
RECURSIVE RunEnd(_)
RunEnd(k) ==
    IF k + 1 <= Len(slides) /\ IsSystemRequirements(slides[k + 1])
        THEN RunEnd(k + 1) ELSE k

\* systemReqSlides.filter(...), as the positions of the slides it keeps
Filtered(k, e) ==
    LET Passes(j) == NonTrivial(slides[j]) IN
    SelectSeq([n \in 1..(e - k + 1) |-> k + n - 1], Passes)

AtSlide == apc = "loop" /\ loopI < Len(slides)

\* else { aggregated.push(slide); i++; }
PassThrough ==
    /\ AtSlide
    /\ ~IsSystemRequirements(slides[loopI + 1])
    /\ aggregated' = Append(aggregated, slides[loopI + 1])
    /\ origin' = Append(origin, loopI + 1)
    /\ loopI' = loopI + 1
    /\ UNCHANGED <<slides, nonTrivialSlides, slideIdx, apc>>
    /\ UNCHANGED <<valVars, fetchVars, runVars, renderVars>>

\* the run is collected and filtered; nothing is left: i++; continue
SkipTrivialRun ==
    /\ AtSlide
    /\ IsSystemRequirements(slides[loopI + 1])
    /\ LET e == RunEnd(loopI + 1) IN
         /\ Filtered(loopI + 1, e) = <<>>
         /\ loopI' = e
    /\ UNCHANGED <<slides, aggregated, origin, nonTrivialSlides, slideIdx, apc>>
    /\ UNCHANGED <<valVars, fetchVars, runVars, renderVars>>

\* the run is collected and filtered; the forEach over what is left begins
CollectRun ==
    /\ AtSlide
    /\ IsSystemRequirements(slides[loopI + 1])
    /\ LET e == RunEnd(loopI + 1) IN
         /\ Filtered(loopI + 1, e) # <<>>
         /\ nonTrivialSlides' = Filtered(loopI + 1, e)
         /\ loopI' = e - 1
    /\ slideIdx' = 1
    /\ apc' = "each"
    /\ UNCHANGED <<slides, aggregated, origin>>
    /\ UNCHANGED <<valVars, fetchVars, runVars, renderVars>>

AtEach == apc = "each" /\ slideIdx <= Len(nonTrivialSlides)

Derived(s, title, content, group) ==
    [s EXCEPT !.title = title, !.content = content, !.group = group]

\* title, content and _group assigned on the input slide itself
InputAssigned(list, k, new) == [list EXCEPT ![k] = new[Len(new)]]

\* { ...s, title, content, _group } is a new object: the input list and its
\* slide k are as before
InputKept(list, k, new) == list

EachStep(new) ==
    /\ aggregated' = aggregated \o new
    /\ origin' = origin \o [k \in 1..Len(new) |-> nonTrivialSlides[slideIdx]]
    /\ slides' = InputKept(slides, nonTrivialSlides[slideIdx], new)
    /\ slideIdx' = slideIdx + 1
    /\ UNCHANGED <<loopI, nonTrivialSlides, apc>>
    /\ UNCHANGED <<valVars, fetchVars, runVars, renderVars>>

\* sectionBoundaries.length > 1 && content.length > MAX_ITEMS_PER_SLIDE
SplitBySections ==
    /\ AtEach
    /\ LET s == slides[nonTrivialSlides[slideIdx]]
           content == s.content
           bounds == sectionBoundaries(content)
       IN /\ Len(bounds) > 1 /\ Len(content) > MAX_ITEMS_PER_SLIDE
          /\ EachStep([secIdx \in 1..Len(bounds) |->
                 LET name == content[bounds[secIdx]].text IN
                 Derived(s, SectionTitle(name),
                         SubSeq(content, bounds[secIdx],
                                SegmentEnd(content, bounds, secIdx)),
                         GroupOf(name))])

\* content.length > MAX_ITEMS_PER_SLIDE && sectionBoundaries.length === 1
SplitInHalf ==
    /\ AtEach
    /\ LET s == slides[nonTrivialSlides[slideIdx]]
           content == s.content
           bounds == sectionBoundaries(content)
       IN /\ ~(Len(bounds) > 1 /\ Len(content) > MAX_ITEMS_PER_SLIDE)
          /\ Len(content) > MAX_ITEMS_PER_SLIDE /\ Len(bounds) = 1
          /\ LET name == content[bounds[1]].text
                 mid == midPoint(Len(content))
             IN EachStep(<<
                  Derived(s, IF name # <<>>
                               THEN Append(SectionTitle(name), "(1/2)")
                               ELSE Append(BASE_TITLE, "(1/2)"),
                          SubSeq(content, 1, mid), "split_1"),
                  Derived(s, IF name # <<>>
                               THEN Append(SectionTitle(name), "(2/2)")
                               ELSE Append(BASE_TITLE, "(2/2)"),
                          SubSeq(content, mid + 1, Len(content)), "split_2") >>)

\* else: the slide is kept, with its title normalised
EmitAsIs ==
    /\ AtEach
    /\ LET s == slides[nonTrivialSlides[slideIdx]]
           content == s.content
           bounds == sectionBoundaries(content)
       IN /\ ~(Len(bounds) > 1 /\ Len(content) > MAX_ITEMS_PER_SLIDE)
          /\ ~(Len(content) > MAX_ITEMS_PER_SLIDE /\ Len(bounds) = 1)
          /\ LET name == AsIsSectionName(content) IN
             EachStep(<< Derived(s,
                           IF name # <<>> THEN SectionTitle(name)
                                          ELSE BASE_TITLE,
                           content,
                           IF name # <<>> THEN GroupOf(name)
                                          ELSE "general") >>)

\* after the forEach: i++; continue
EndRun ==
    /\ apc = "each" /\ slideIdx > Len(nonTrivialSlides)
    /\ loopI' = loopI + 1
    /\ nonTrivialSlides' = <<>> /\ slideIdx' = 0
    /\ apc' = "loop"
    /\ UNCHANGED <<slides, aggregated, origin>>
    /\ UNCHANGED <<valVars, fetchVars, runVars, renderVars>>

\* the while loop ends: return aggregated
AggReturn ==
    /\ apc = "loop" /\ loopI >= Len(slides)
    /\ apc' = "returned"
    /\ UNCHANGED <<slides, aggregated, origin, loopI, nonTrivialSlides, slideIdx>>
    /\ UNCHANGED <<valVars, fetchVars, runVars, renderVars>>

AggNext ==
    \/ PassThrough
    \/ SkipTrivialRun
    \/ CollectRun
    \/ SplitBySections
    \/ SplitInHalf
    \/ EmitAsIs
    \/ EndRun
    \/ AggReturn

SpecAggregate == AggInit /\ [][AggNext]_vars

TypeOKAggregate ==
    /\ loopI \in 0..Len(slides)
    /\ Len(origin) = Len(aggregated)
    /\ apc \in {"loop", "each", "returned"}

-----------------------------------------------------------------------------
(* aggregateSlides: properties of the returned list *)

AggDone == apc = "returned"

InRun(j) == IsSystemRequirements(slides[j])

\* the slides derived from input slide j, in output order
DerivedFrom(j) ==
    LET From(k) == origin[k] = j
        sel == SelectSeq([k \in 1..Len(origin) |-> k], From)
    IN [n \in 1..Len(sel) |-> aggregated[sel[n]]]

\* positions of the section headers of a content, as a set
HeaderPositions(content) ==
    { p \in 1..Len(content) :
        content[p].level = 0 /\ content[p].text \in SECTION_NAMES }

\* the m-th header position in ascending order
NthHeader(content, m) ==
    CHOOSE p \in HeaderPositions(content) :
        Cardinality({ q \in HeaderPositions(content) : q < p }) = m - 1

\* the blocks from position p up to, not including, the next header or the end
SegmentAt(content, p) ==
    LET later == { q \in HeaderPositions(content) : q > p }
        last == IF later = {} THEN Len(content)
                ELSE (CHOOSE q \in later : \A r \in later : q <= r) - 1
    IN [x \in 1..(last - p + 1) |-> content[p + x - 1]]

\* content matches 'none required', 'standard source' or 'power: standard'
TrivialPhrasing(s) ==
    LET text == JoinTexts(s.content) IN
    \/ IncludesPhrase(text, "none", "required")
    \/ IncludesPhrase(text, "standard", "source")
    \/ StartsPowerStandard(text)

TooLong(s) == Len(s.content) > MAX_ITEMS_PER_SLIDE

\* slide j of a run passed the filter
Retained(j) == InRun(j) /\ NonTrivial(slides[j])

MaximalRun(a, b) ==
    /\ a <= b
    /\ \A j \in a..b : InRun(j)
    /\ a = 1 \/ ~InRun(a - 1)
    /\ b = Len(slides) \/ ~InRun(b + 1)

RECURSIVE BlockSum(_, _)
BlockSum(list, S) ==
    IF S = {} THEN 0
    ELSE LET k == CHOOSE x \in S : TRUE
         IN Len(list[k].content) + BlockSum(list, S \ {k})

(* C14: for every maximal run of adjacent System Requirements slides, the
   slides derived from the run carry in total as many content blocks as the
   run's retained input slides: no block of a retained slide is dropped or
   duplicated, blocks before the first section header included. *)
C14_BlocksConserved ==
    AggDone =>
        \A a, b \in 1..Len(slides) :
            MaximalRun(a, b) =>
                BlockSum(aggregated,
                         { k \in 1..Len(origin) : origin[k] \in a..b })
                = BlockSum(slides, { j \in a..b : Retained(j) })

(* C15: every slide emitted for a System Requirements run carries at most
   K = 10 content blocks, whatever the input. *)
C15_AtMostKBlocks ==
    AggDone =>
        \A k \in 1..Len(aggregated) :
            InRun(origin[k]) =>
                Len(aggregated[k].content) <= MAX_ITEMS_PER_SLIDE

(* C16: a slide of a System Requirements run is dropped exactly when its
   content matches the trivial phrasing and it has fewer than 3 blocks; a
   slide meeting only one of the two conditions is retained. *)
C16_DroppedIffTrivialAndShort ==
    AggDone =>
        \A j \in 1..Len(slides) :
            InRun(j) =>
                ((\A k \in 1..Len(origin) : origin[k] # j)
                 <=> (TrivialPhrasing(slides[j])
                        /\ Len(slides[j].content) < 3))

(* C17: a retained slide with n > 1 section headers and more than K = 10
   blocks yields exactly n derived slides, in section order, the i-th titled
   'System Requirements: <i-th section name>' and carrying exactly the
   blocks from the i-th header up to, not including, the next header or the
   end. *)
C17_OneSlidePerSection ==
    AggDone =>
        \A j \in 1..Len(slides) :
            LET content == slides[j].content
                n == Cardinality(HeaderPositions(content))
                d == DerivedFrom(j)
            IN (Retained(j) /\ n > 1 /\ TooLong(slides[j])) =>
                 /\ Len(d) = n
                 /\ \A m \in 1..n :
                      LET p == NthHeader(content, m) IN
                      /\ d[m].title
                           = <<"System", "Requirements:">> \o content[p].text
                      /\ d[m].content = SegmentAt(content, p)

\* 'Network' and 'Camera' totalling 12 blocks gave exactly those two slides
C17_Witness ==
    /\ AggDone
    /\ \E j \in 1..Len(slides) :
         /\ Retained(j) /\ Len(slides[j].content) = 12
         /\ Cardinality(HeaderPositions(slides[j].content)) = 2
         /\ Len(DerivedFrom(j)) = 2
         /\ DerivedFrom(j)[1].title = <<"System", "Requirements:", "Network">>
         /\ DerivedFrom(j)[2].title = <<"System", "Requirements:", "Camera">>
         /\ Len(DerivedFrom(j)[1].content) = 6

(* C18: a retained slide with exactly one section header and n > K = 10
   blocks yields exactly two derived slides, titled '... (1/2)' and
   '... (2/2)', carrying the first ceil(n/2) and the remaining floor(n/2)
   blocks in their original order. *)
C18_HalvedOnce ==
    AggDone =>
        \A j \in 1..Len(slides) :
            LET content == slides[j].content
                n == Len(content)
                half == CHOOSE h \in 0..n : 2 * h >= n /\ 2 * (h - 1) < n
                d == DerivedFrom(j)
            IN (Retained(j) /\ Cardinality(HeaderPositions(content)) = 1
                  /\ TooLong(slides[j])) =>
                 /\ Len(d) = 2
                 /\ d[1].title[Len(d[1].title)] = "(1/2)"
                 /\ d[2].title[Len(d[2].title)] = "(2/2)"
                 /\ d[1].content = [x \in 1..half |-> content[x]]
                 /\ d[2].content = [x \in 1..(n - half) |-> content[half + x]]

\* 14 blocks under one header gave two slides of 7 blocks; 11 gave 6 and 5
C18_Witness ==
    /\ AggDone
    /\ \E j, l \in 1..Len(slides) :
         /\ Retained(j) /\ Len(slides[j].content) = 14
         /\ Len(DerivedFrom(j)) = 2
         /\ Len(DerivedFrom(j)[1].content) = 7
         /\ Len(DerivedFrom(j)[2].content) = 7
         /\ Retained(l) /\ Len(slides[l].content) = 11
         /\ Cardinality(HeaderPositions(slides[l].content)) = 1
         /\ Len(DerivedFrom(l)[1].content) = 6

\* slide j is retained and neither split by section nor halved
NotSplit(j) ==
    /\ Retained(j)
    /\ ~TooLong(slides[j]) \/ HeaderPositions(slides[j].content) = {}

(* C19 (as stated): a retained slide that is not split is emitted exactly
   once with its content blocks identical and in order; its title is
   'System Requirements: <section name>' when the slide contains a section
   header, and the bare 'System Requirements' only when it contains none. *)
C19_TitledWhenAnyHeader ==
    AggDone =>
        \A j \in 1..Len(slides) :
            LET content == slides[j].content
                d == DerivedFrom(j)
            IN NotSplit(j) =>
                 /\ Len(d) = 1
                 /\ d[1].content = content
                 /\ HeaderPositions(content) # {} =>
                      \E p \in HeaderPositions(content) :
                          d[1].title
                            = <<"System", "Requirements:">> \o content[p].text
                 /\ d[1].title = BASE_TITLE => HeaderPositions(content) = {}

(* C19 (amended): a retained slide that is not split is emitted exactly once
   with its content blocks identical and in order; its title is
   'System Requirements: <section name>' when the slide contains exactly one
   section header, and the bare 'System Requirements' when it contains none
   or more than one. *)
C19_TitledWhenOneHeader ==
    AggDone =>
        \A j \in 1..Len(slides) :
            LET content == slides[j].content
                hp == HeaderPositions(content)
                d == DerivedFrom(j)
            IN NotSplit(j) =>
                 /\ Len(d) = 1
                 /\ d[1].content = content
                 /\ Cardinality(hp) = 1 =>
                      \A p \in hp :
                          d[1].title
                            = <<"System", "Requirements:">> \o content[p].text
                 /\ Cardinality(hp) # 1 => d[1].title = BASE_TITLE

\* a six-block slide with two headers came out under the bare title
C19_Witness ==
    /\ AggDone
    /\ \E j \in 1..Len(slides) :
         /\ NotSplit(j)
         /\ Cardinality(HeaderPositions(slides[j].content)) = 2
         /\ Len(DerivedFrom(j)) = 1
         /\ DerivedFrom(j)[1].title = BASE_TITLE
         /\ DerivedFrom(j)[1].content = slides[j].content

\* slide s is outside the System Requirements category
OutsideCategory(s) ==
    \/ s.type # "content_bullets"
    \/ s.title = <<>>
    \/ /\ s.title # <<"System", "Requirements">>
       /\ ~(Len(s.title) >= 2 /\ s.title[1] = "System"
                              /\ s.title[2] = "Requirements:")

(* C20: every input slide outside the System Requirements category appears
   in the output exactly once and unchanged, and the output lists surviving
   and derived slides in the order of their source slides in the input. *)
C20_OthersPassInOrder ==
    AggDone =>
        /\ \A j \in 1..Len(slides) :
             OutsideCategory(slides[j]) => DerivedFrom(j) = <<slides[j]>>
        /\ \A k1, k2 \in 1..Len(origin) :
             k1 < k2 => origin[k1] <= origin[k2]

\* a table slide titled 'System Requirements' passed through between two
\* runs that were both split
C20_Witness ==
    /\ AggDone
    /\ Len(slides) = 3
    /\ slides[2].type = "content_table" /\ slides[2].title = BASE_TITLE
    /\ Len(DerivedFrom(1)) = 2 /\ Len(DerivedFrom(3)) = 2
    /\ aggregated[3] = slides[2]

-----------------------------------------------------------------------------
(* generatePresentation, the asset stage: slides, URLs, tasks and records   *)
(*                                                                          *)
(* A slide of the normalized list is [type, video_url, image_url, dtype,    *)
(* code]; a URL is a string ("" when the field is absent), the diagram      *)
(* code is [str |-> text] or, for a value that is not a string, [num |-> n] *)

MaxRunSlides == 3
MaxRunTasks == 2

NoResult == [noresult |-> TRUE]
NoPath   == [nopath |-> TRUE]                 \* path: null

DRIVE_URL == "https://drive.google.com/file/d/ID/view"
MOV_URL   == "https://cdn.example/clip.mov"
JPG_URL   == "https://cdn.example/pic.jpg"
REL_URL   == "clips/intro.mov"                \* new URL(...) throws on it
BLANK     == " "

\* the text taken as it is, whitespace included
TrimNothing(u) == u

\* String.prototype.trim on a text of the vocabulary
Trim(u) == IF u = BLANK THEN "" ELSE u

\* new URL(u) succeeds
UrlParses(u) == u \in {DRIVE_URL, MOV_URL, JPG_URL}

\* path.extname(new URL(u).pathname)
UrlExtName(u) ==
    CASE u = MOV_URL -> ".mov"
      [] u = JPG_URL -> ".jpg"
      [] OTHER       -> ""

\* the default extension of a kind
DefaultExt(kind) == IF kind = "video" THEN ".mp4" ELSE ".png"

\* path.join(assetsDir, `module_${i}${ext}`) without the slide index
MediaPathNoIndex(idx, ext) == [stem |-> "module", index |-> 0, ext |-> ext]

\* path.join(assetsDir, `module_${i}${ext}`)
MediaPath(idx, ext) == [stem |-> "module", index |-> idx, ext |-> ext]

\* path.join(assetsDir, `diagram_${i}.png`)
DiagramPath(idx) == [stem |-> "diagram", index |-> idx, ext |-> ".png"]

\* try { ext = path.extname(new URL(url).pathname) || default } catch { default }
TaskPath(idx, kind, url) ==
    MediaPath(idx, IF UrlParses(url) /\ UrlExtName(url) # ""
                     THEN UrlExtName(url) ELSE DefaultExt(kind))

\* a task for each reference the slide carries
TaskKindsBoth(videoUrl, imageUrl) ==
    (IF videoUrl # "" THEN <<"video">> ELSE <<>>)
    \o (IF imageUrl # "" THEN <<"image">> ELSE <<>>)

\* the image reference tried first
TaskKindsImageFirst(videoUrl, imageUrl) ==
    IF imageUrl # "" THEN <<"image">>
    ELSE IF videoUrl # "" THEN <<"video">>
    ELSE <<>>

\* if (videoUrl !== '') {video} else if (imageUrl !== '') {image}
TaskKinds(videoUrl, imageUrl) ==
    IF videoUrl # "" THEN <<"video">>
    ELSE IF imageUrl # "" THEN <<"image">>
    ELSE <<>>

\* the tasks the preparation loop pushes for the slide at index idx (0-based)
TasksOfSlide(slide, idx) ==
    IF slide.type # "module_description" THEN <<>>
    ELSE LET videoUrl == Trim(slide.video_url)
             imageUrl == Trim(slide.image_url)
             kinds == TaskKinds(videoUrl, imageUrl)
         IN [k \in 1..Len(kinds) |->
               LET url == IF kinds[k] = "video" THEN videoUrl ELSE imageUrl
               IN [index |-> idx, type |-> kinds[k], url |-> url,
                   path |-> TaskPath(idx, kinds[k], url)]]

RECURSIVE TasksFrom(_, _)
TasksFrom(list, k) ==
    IF k > Len(list) THEN <<>>
    ELSE TasksOfSlide(list[k], k - 1) \o TasksFrom(list, k + 1)

\* ---- the records the task callback returns (lines 1095-1127)
VideoRecord(task) ==
    [type |-> "video", path |-> task.path, video_url |-> task.url]

\* { index, type: 'video_failed', path: null, video_url: task.url }
VideoFailed(task) ==
    [type |-> "video_failed", path |-> NoPath, video_url |-> task.url]

ImageRecord(task) ==
    [type |-> "image", path |-> task.path, video_url |-> "absent"]

\* { index, type: 'image_failed', path: null }
ImageFailed(task) ==
    [type |-> "image_failed", path |-> NoPath, video_url |-> "absent"]

\* the catch block handing the error on instead of returning a record
TaskCatchRethrows(task) == NoResult

\* catch (error) { return task.type === 'video' ? {video_failed} : {image_failed} }
TaskCatch(task) ==
    IF task.type = "video" THEN VideoFailed(task) ELSE ImageFailed(task)

\* what the task callback may fulfil with
TaskOutcomes(task) ==
    IF task.type = "video"
        THEN { VideoRecord(task),       \* path returned, valid, stat succeeded
               VideoFailed(task),       \* null returned, or the file invalid
               TaskCatch(task) }        \* stat (line 1093) raised
        ELSE { ImageRecord(task),       \* path returned
               ImageFailed(task),       \* null returned
               TaskCatch(task) }        \* the fetch raised

\* the diagram record made of what renderMermaidDiagram returned
DiagramRecordOfReturn(idx, returned) ==
    [type |-> "diagram",
     path |-> IF returned = "null" THEN NoPath ELSE DiagramPath(idx),
     video_url |-> "absent"]

\* assetMap.set(i, { type: 'diagram', path: diagramPath })
DiagramRecord(idx, returned) ==
    [type |-> "diagram", path |-> DiagramPath(idx), video_url |-> "absent"]

-----------------------------------------------------------------------------
(* generatePresentation, the asset stage: inputs *)

Module(videoUrl, imageUrl) ==
    [type |-> "module_description", video_url |-> videoUrl,
     image_url |-> imageUrl, dtype |-> "none", code |-> [str |-> ""]]

Diagram(code) ==
    [type |-> "diagram", video_url |-> "", image_url |-> "",
     dtype |-> "mermaid", code |-> code]

RunCatalogue ==
    { Module(DRIVE_URL, ""),            \* video, no extension in the URL
      Module(MOV_URL, JPG_URL),         \* both references
      Module("", JPG_URL),              \* image only
      Module(BLANK, DRIVE_URL),         \* blank video URL, image share link
      Module(REL_URL, ""),              \* a video URL that does not parse
      Module("", BLANK),                \* nothing to fetch
      Diagram([str |-> "graph TD"]),
      Diagram([str |-> ""]),            \* no code
      Diagram([str |-> BLANK]),         \* only whitespace
      Diagram([num |-> 42]),            \* code that is not a string
      [type |-> "content_bullets", video_url |-> MOV_URL, image_url |-> "",
       dtype |-> "none", code |-> [str |-> ""]] }

RunLists ==
    { list \in UNION { [1..n -> RunCatalogue] : n \in 0..MaxRunSlides } :
          Len(TasksFrom(list, 1)) <= MaxRunTasks }

-----------------------------------------------------------------------------
(* generatePresentation, the asset stage (lines 1021-1159) *)

RunInit ==
    /\ aggregatedSlides \in RunLists
    /\ downloadTasks = <<>> /\ tstate = <<>> /\ downloadResults = <<>>
    /\ assetMap = [k \in 1..Len(aggregatedSlides) |-> NoAsset]
    /\ writes = [k \in 1..Len(aggregatedSlides) |-> 0]
    /\ session = "none" /\ opens = 0 /\ closes = 0 /\ sessErr = FALSE
    /\ rpc = "start" /\ rexc = FALSE /\ di = 0
    /\ renderLog = <<>> /\ outOfOrder = FALSE /\ htmlMedia = <<>>
    /\ ValIdle /\ FetchIdle /\ AggIdle /\ RenderIdle

\* what the asset stage leaves alone
otherVars == <<valVars, fetchVars, aggVars, renderVars, htmlMedia>>

\* chromium.launch() and browser.newContext(), before the try block
Launch ==
    /\ rpc = "start"
    /\ \/ /\ session' = "open" /\ opens' = opens + 1     \* both succeed
          /\ rpc' = "prepare" /\ UNCHANGED sessErr
       \/ /\ rpc' = "raised"                             \* launch raises
          /\ UNCHANGED <<session, opens, sessErr>>
       \/ /\ session' = "open" /\ opens' = opens + 1     \* newContext raises
          /\ sessErr' = TRUE /\ rpc' = "raised"
    /\ UNCHANGED <<aggregatedSlides, downloadTasks, tstate, downloadResults,
                   assetMap, writes, closes, rexc, di, renderLog, outOfOrder>>
    /\ UNCHANGED otherVars

\* the preparation loop (lines 1032-1079)
PrepareTasks ==
    /\ rpc = "prepare"
    /\ downloadTasks' = TasksFrom(aggregatedSlides, 1)
    /\ tstate' = [t \in 1..Len(downloadTasks') |-> "created"]
    /\ downloadResults' = [t \in 1..Len(downloadTasks') |-> NoResult]
    /\ rpc' = "start_downloads"
    /\ UNCHANGED <<aggregatedSlides, assetMap, writes, session, opens, closes,
                   sessErr, rexc, di, renderLog, outOfOrder>>
    /\ UNCHANGED otherVars

\* downloadTasks.map(async (task) => ...): every callback runs to its first
\* await before Promise.allSettled is awaited
StartDownloads ==
    /\ rpc = "start_downloads"
    /\ tstate' = [t \in 1..Len(downloadTasks) |-> "running"]
    /\ rpc' = "downloads"
    /\ UNCHANGED <<aggregatedSlides, downloadTasks, downloadResults, assetMap,
                   writes, session, opens, closes, sessErr, rexc, di,
                   renderLog, outOfOrder>>
    /\ UNCHANGED otherVars

TaskStep(t, from, to) ==
    /\ rpc = "downloads"
    /\ t \in 1..Len(downloadTasks)
    /\ tstate[t] \in from
    /\ tstate' = [tstate EXCEPT ![t] = to]
    /\ UNCHANGED <<aggregatedSlides, downloadTasks, assetMap, writes, session,
                   opens, closes, sessErr, rpc, rexc, di, renderLog>>
    /\ UNCHANGED otherVars

\* the fetch of task t reaches its browser fallback: context.newPage()
TaskOpenPage ==
    \E t \in 1..Len(downloadTasks) :
        /\ TaskStep(t, {"running"}, "page")
        /\ UNCHANGED <<downloadResults, outOfOrder>>

\* task t settles with one of the records its callback may return
Settle(t, from) ==
    /\ TaskStep(t, from, "settled")
    /\ \E v \in TaskOutcomes(downloadTasks[t]) :
           downloadResults' = [downloadResults EXCEPT ![t] = v]
    /\ outOfOrder' = (outOfOrder \/ \E u \in 1..(t - 1) : tstate[u] # "settled")

\* finally { await page.close() } of that attempt, the last step of the
\* fetch: the callback returns
TaskClosePage ==
    \E t \in 1..Len(downloadTasks) : Settle(t, {"page"})

\* extractGoogleDriveId(url) finds a file id
IsShareLink(u) == u = DRIVE_URL

\* the fetch of a video share link meets redirects that form a cycle:
\* fetchResponse follows every one of them, each request returns, and the
\* chain never ends
TaskHangs ==
    \E t \in 1..Len(downloadTasks) :
        /\ downloadTasks[t].type = "video"
        /\ IsShareLink(downloadTasks[t].url)
        /\ TaskStep(t, {"running"}, "hung")
        /\ UNCHANGED <<downloadResults, outOfOrder>>

\* the callback of task t returns: the task settles with its record
TaskSettles ==
    \E t \in 1..Len(downloadTasks) : Settle(t, {"running"})

\* the join passed without waiting for the tasks
AnySettled(ts) == TRUE

\* await Promise.allSettled(...): every task has settled
AllSettled(ts) == \A t \in 1..Len(ts) : ts[t] = "settled"

RECURSIVE MergeFrom(_, _, _)
\* for (const result of downloadResults) if (fulfilled && value) assetMap.set
MergeFrom(map, results, t) ==
    IF t > Len(results) THEN map
    ELSE MergeFrom(IF results[t] # NoResult
                     THEN [map EXCEPT ![downloadTasks[t].index + 1] = results[t]]
                     ELSE map,
                   results, t + 1)

RECURSIVE CountFrom(_, _, _)
CountFrom(w, results, t) ==
    IF t > Len(results) THEN w
    ELSE CountFrom(IF results[t] # NoResult
                     THEN [w EXCEPT ![downloadTasks[t].index + 1] = @ + 1]
                     ELSE w,
                   results, t + 1)

\* the join is passed and the results are put into the lookup (1133-1137)
MergeResults ==
    /\ rpc = "downloads"
    /\ AllSettled(tstate)
    /\ assetMap' = MergeFrom(assetMap, downloadResults, 1)
    /\ writes' = CountFrom(writes, downloadResults, 1)
    /\ rpc' = "diagrams" /\ di' = 0
    /\ UNCHANGED <<aggregatedSlides, downloadTasks, tstate, downloadResults,
                   session, opens, closes, sessErr, rexc, renderLog,
                   outOfOrder>>
    /\ UNCHANGED otherVars

\* ---- the diagram loop (lines 1140-1155)
AtDiagram == rpc = "diagrams" /\ di < Len(aggregatedSlides)

\* slide.type === 'diagram' && slide.diagram?.type === 'mermaid'
IsMermaid(slide) == slide.type = "diagram" /\ slide.dtype = "mermaid"

IsString(code) == DOMAIN code = {"str"}

DiagramStep ==
    /\ UNCHANGED <<aggregatedSlides, downloadTasks, tstate, downloadResults,
                   session, opens, closes, sessErr, outOfOrder>>
    /\ UNCHANGED otherVars

\* a slide that is not a mermaid diagram
SkipSlide ==
    /\ AtDiagram
    /\ ~IsMermaid(aggregatedSlides[di + 1])
    /\ di' = di + 1
    /\ UNCHANGED <<assetMap, writes, rpc, rexc, renderLog>>
    /\ DiagramStep

\* diagramCode.trim() is empty: a warning, nothing rendered or recorded
SkipEmptyDiagram ==
    /\ AtDiagram
    /\ LET slide == aggregatedSlides[di + 1] IN
         /\ IsMermaid(slide) /\ IsString(slide.code)
         /\ Trim(slide.code.str) = ""
    /\ di' = di + 1
    /\ UNCHANGED <<assetMap, writes, rpc, rexc, renderLog>>
    /\ DiagramStep

\* diagramCode.trim is not a function: a TypeError leaves the try block
DiagramRaises ==
    /\ AtDiagram
    /\ LET slide == aggregatedSlides[di + 1] IN
         IsMermaid(slide) /\ ~IsString(slide.code)
    /\ rexc' = TRUE /\ rpc' = "finally"
    /\ UNCHANGED <<assetMap, writes, di, renderLog>>
    /\ DiagramStep

\* await renderMermaidDiagram(diagramCode, diagramPath) is entered
RenderStart ==
    /\ AtDiagram
    /\ LET slide == aggregatedSlides[di + 1] IN
         /\ IsMermaid(slide) /\ IsString(slide.code)
         /\ Trim(slide.code.str) # ""
    /\ rpc' = "rendering"
    /\ renderLog' = Append(renderLog, di)
    /\ UNCHANGED <<assetMap, writes, rexc, di>>
    /\ DiagramStep

\* the render returns (engine output, placeholder, or null) and the record
\* is set
RenderEnd ==
    /\ rpc = "rendering"
    /\ \E returned \in {"engine", "placeholder", "null"} :
         assetMap' = [assetMap EXCEPT ![di + 1] = DiagramRecord(di, returned)]
    /\ writes' = [writes EXCEPT ![di + 1] = @ + 1]
    /\ di' = di + 1
    /\ rpc' = "diagrams"
    /\ UNCHANGED <<rexc, renderLog>>
    /\ DiagramStep

\* the loop ends; control reaches the finally block
DiagramsDone ==
    /\ rpc = "diagrams" /\ di >= Len(aggregatedSlides)
    /\ rpc' = "finally"
    /\ UNCHANGED <<assetMap, writes, rexc, di, renderLog>>
    /\ DiagramStep

\* try { ... } finally { ... }: the block runs with or without an exception
FinallyRuns(exc) == TRUE

\* finally { await context.close(); await browser.close(); }
FinallyClose ==
    /\ rpc = "finally"
    /\ IF FinallyRuns(rexc)
         THEN \/ /\ session' = "closed" /\ closes' = closes + 1
                 /\ rpc' = IF rexc THEN "raised" ELSE "html"
                 /\ UNCHANGED sessErr
              \/ /\ sessErr' = TRUE /\ rpc' = "raised"   \* context.close raises
                 /\ UNCHANGED <<session, closes>>
         ELSE /\ rpc' = "raised"
              /\ UNCHANGED <<session, closes, sessErr>>
    /\ UNCHANGED <<aggregatedSlides, downloadTasks, tstate, downloadResults,
                   assetMap, writes, opens, rexc, di, renderLog, outOfOrder>>
    /\ UNCHANGED otherVars

\* ---- the HTML of each slide (lines 1165-1207), its media area only

\* asset?.path
PathOf(a) == IF a = NoAsset THEN NoPath ELSE a.path

\* asset?.type || 'image'
TypeOf(a) == IF a = NoAsset THEN "image" ELSE a.type

\* videoUrl || (asset?.video_url || '')
videoUrlForLink(slide, a) ==
    IF slide.video_url # "" THEN slide.video_url
    ELSE IF a # NoAsset /\ a.video_url # "absent" THEN a.video_url
    ELSE ""

\* the link shown for every URL that is not the empty string
showVideoLinkNoTrim(mediaPath, videoUrl) ==
    mediaPath = NoPath /\ videoUrl # ""

\* !mediaRelPath && videoUrl && String(videoUrl).trim() !== ''
showVideoLink(mediaPath, videoUrl) ==
    mediaPath = NoPath /\ videoUrl # "" /\ Trim(videoUrl) # ""

\* the media-content block of generateModuleDescriptionHTML
generateModuleDescriptionHTML(mediaPath, mediaType, videoUrl) ==
    IF mediaPath # NoPath
      THEN [show |-> IF mediaType \in {"video", "video_manual_insert"}
                       THEN "video" ELSE "img",
            src |-> mediaPath]
    ELSE IF showVideoLink(mediaPath, videoUrl)
      THEN [show |-> "hint", url |-> videoUrl]
    ELSE [show |-> "empty"]

\* the diagram-container block of generateDiagramHTML
generateDiagramHTML(diagramPath) ==
    IF diagramPath # NoPath THEN [show |-> "img", src |-> diagramPath]
    ELSE [show |-> "empty"]

\* switch (slide.type) of the HTML loop
SlideHtml(slide, a) ==
    CASE slide.type = "module_description" ->
           generateModuleDescriptionHTML(PathOf(a), TypeOf(a),
                                         videoUrlForLink(slide, a))
      [] slide.type = "diagram" -> generateDiagramHTML(PathOf(a))
      [] OTHER -> [show |-> "other"]

\* the HTML loop over the slides, after the asset stage
HtmlStage ==
    /\ rpc = "html"
    /\ htmlMedia' = [k \in 1..Len(aggregatedSlides) |->
                        SlideHtml(aggregatedSlides[k], assetMap[k])]
    /\ rpc' = "pptx"
    /\ UNCHANGED <<aggregatedSlides, downloadTasks, tstate, downloadResults,
                   assetMap, writes, session, opens, closes, sessErr, rexc,
                   di, renderLog, outOfOrder>>
    /\ UNCHANGED <<valVars, fetchVars, aggVars, renderVars>>

RunNext ==
    \/ Launch
    \/ PrepareTasks
    \/ StartDownloads
    \/ TaskOpenPage
    \/ TaskClosePage
    \/ TaskHangs
    \/ TaskSettles
    \/ MergeResults
    \/ SkipSlide
    \/ SkipEmptyDiagram
    \/ DiagramRaises
    \/ RenderStart
    \/ RenderEnd
    \/ DiagramsDone
    \/ FinallyClose
    \/ HtmlStage

SpecRun == RunInit /\ [][RunNext]_vars

\* the event loop runs a continuation whenever one is ready
SpecRunFair == RunInit /\ [][RunNext]_vars /\ WF_vars(RunNext)

TypeOKRun ==
    /\ session \in {"none", "open", "closed"}
    /\ Len(tstate) = Len(downloadTasks)
    /\ Len(downloadResults) = Len(downloadTasks)
    /\ di \in 0..Len(aggregatedSlides)

-----------------------------------------------------------------------------
(* generatePresentation, the asset stage: properties *)

\* the download results have been put into the lookup
Merged == rpc \in {"diagrams", "rendering", "finally", "html"}

IsFailedKind(kind) == kind \in {"video_failed", "image_failed"}

\* the record of slide index idx (0-based) in the lookup
AssetAt(idx) == assetMap[idx + 1]

\* its kind, "none" when the lookup has no record for the index
KindAt(idx) ==
    IF AssetAt(idx) = NoAsset THEN "none" ELSE AssetAt(idx).type

\* C21: all download tasks are started together; once the join is passed,
\* every task has exactly one outcome, of its own kind, recorded in the
\* lookup under the index of its slide, in whatever order the tasks settled;
\* and the outcome a task has settled with is never changed by what
\* happens to another task.
C21_EveryTaskOneOutcome ==
    /\ [](/\ \A t, u \in 1..Len(tstate) :
                (tstate[t] = "created") <=> (tstate[u] = "created")
          /\ Merged =>
                \A t \in 1..Len(downloadTasks) :
                    LET task == downloadTasks[t] IN
                      /\ downloadResults[t] # NoResult
                      /\ AssetAt(task.index) = downloadResults[t]
                      /\ KindAt(task.index)
                            \in {task.type, task.type \o "_failed"}
                      /\ writes[task.index + 1] = 1)
    /\ [][\A t \in 1..Len(downloadResults) :
              downloadResults[t] # NoResult =>
                  /\ Len(downloadResults') = Len(downloadResults)
                  /\ downloadResults'[t] = downloadResults[t]]_vars

\* two tasks settled in the reverse of their order, one failed and one
\* succeeded, and both outcomes are in the lookup
C21_Witness ==
    /\ Merged /\ outOfOrder
    /\ \E t, u \in 1..Len(downloadTasks) :
          /\ IsFailedKind(KindAt(downloadTasks[t].index))
          /\ KindAt(downloadTasks[u].index) \in {"video", "image"}

\* the slide at index idx (0-based) is a mermaid diagram with code to render
Renderable(idx) ==
    LET slide == aggregatedSlides[idx + 1] IN
      /\ slide.type = "diagram" /\ slide.dtype = "mermaid"
      /\ DOMAIN slide.code = {"str"}
      /\ slide.code.str \notin {"", BLANK}

\* the run can take no further step
Stuck == ~ENABLED RunNext

\* C22: a download task that never settles delays only the asset of its own
\* slide: when the run has come to rest with a task hung, the outcome of
\* every other task is recorded in the lookup and every diagram with code
\* has been rendered.
C22_HungTaskDelaysOnlyItself ==
    (Stuck /\ \E t \in 1..Len(tstate) : tstate[t] = "hung") =>
        /\ \A u \in 1..Len(tstate) :
              tstate[u] = "settled" =>
                  AssetAt(downloadTasks[u].index) = downloadResults[u]
        /\ \A idx \in 0..(Len(aggregatedSlides) - 1) :
              Renderable(idx) => KindAt(idx) = "diagram"

\* a URL field that holds more than whitespace
NonBlank(u) == u \notin {"", BLANK}

\* C23: there is at most one download task per slide, only for a
\* module_description slide with a non-empty media URL; a slide with both a
\* video and an image reference gets the video task; and the lookup is
\* written at most once per slide index in a run.
C23_OneTaskPerSlideVideoFirst ==
    /\ \A t, u \in 1..Len(downloadTasks) :
          downloadTasks[t].index = downloadTasks[u].index => t = u
    /\ \A t \in 1..Len(downloadTasks) :
          LET task  == downloadTasks[t]
              slide == aggregatedSlides[task.index + 1]
          IN /\ slide.type = "module_description"
             /\ NonBlank(task.url)
             /\ IF NonBlank(slide.video_url)
                  THEN task.type = "video" /\ task.url = slide.video_url
                  ELSE task.type = "image" /\ task.url = slide.image_url
    /\ \A k \in 1..Len(writes) : writes[k] <= 1

\* a finished asset stage where a slide with both references has the record
\* of its video task and a diagram slide has its record
C23_Witness ==
    /\ rpc = "html"
    /\ \E k \in 1..Len(aggregatedSlides) :
          /\ NonBlank(aggregatedSlides[k].video_url)
          /\ NonBlank(aggregatedSlides[k].image_url)
          /\ KindAt(k - 1) \in {"video", "video_failed"}
          /\ writes[k] = 1
    /\ \E k \in 1..Len(aggregatedSlides) : KindAt(k - 1) = "diagram"

\* C24: no diagram render starts before every download task has settled,
\* and renders run one after another in slide order: while one is in
\* progress or after the last one, every earlier render has ended with its
\* record set.
C24_RendersAfterDownloadsInTurn ==
    /\ (rpc = "rendering" \/ renderLog # <<>>) =>
          \A t \in 1..Len(tstate) : tstate[t] = "settled"
    /\ \A j, k \in 1..Len(renderLog) : j < k => renderLog[j] < renderLog[k]
    /\ \A j \in 1..Len(renderLog) :
          (j < Len(renderLog) \/ rpc # "rendering") =>
              KindAt(renderLog[j]) = "diagram"
    /\ rpc = "rendering" => renderLog # <<>> /\ renderLog[Len(renderLog)] = di

\* the second render of a run is in progress, after a download task
C24_Witness ==
    /\ rpc = "rendering" /\ Len(renderLog) = 2
    /\ Len(downloadTasks) > 0

\* C25: no record is written into the lookup before all download tasks and
\* all diagram renders have settled.
C25_NoRecordBeforeBothStages ==
    (\E k \in 1..Len(assetMap) : assetMap[k] # NoAsset) =>
        /\ \A t \in 1..Len(tstate) : tstate[t] = "settled"
        /\ rpc # "rendering"
        /\ \A idx \in 0..(Len(aggregatedSlides) - 1) :
              Renderable(idx) => KindAt(idx) = "diagram"

\* C26: in every state of a run every record in the lookup has a null path
\* exactly when its kind is image_failed or video_failed; a record of kind
\* image, video or diagram has a path.
C26_NullPathIffFailed ==
    \A k \in 1..Len(assetMap) :
        assetMap[k] # NoAsset =>
            /\ assetMap[k].type
                  \in {"image", "video", "diagram", "image_failed", "video_failed"}
            /\ (assetMap[k].path = NoPath) <=>
                  (assetMap[k].type \in {"image_failed", "video_failed"})

\* the lookup of a finished asset stage holds a failed record, a media
\* record and a diagram record
C26_Witness ==
    /\ rpc = "html"
    /\ \E k \in 1..Len(assetMap) : KindAt(k - 1) \in {"image_failed", "video_failed"}
    /\ \E k \in 1..Len(assetMap) : KindAt(k - 1) \in {"image", "video"}
    /\ \E k \in 1..Len(assetMap) : KindAt(k - 1) = "diagram"

\* C27: every failure marker in the lookup, video_failed and image_failed,
\* retains the source URL of the reference that failed.
C27_FailureKeepsUrl ==
    \A k \in 1..Len(assetMap) :
        IsFailedKind(KindAt(k - 1)) =>
            LET slide == aggregatedSlides[k] IN
              /\ NonBlank(assetMap[k].video_url)
              /\ assetMap[k].video_url
                    = IF KindAt(k - 1) = "video_failed"
                        THEN slide.video_url ELSE slide.image_url

\* C28: the browser session is opened once per run, before any download
\* task starts, and closed once, after all download tasks and all diagram
\* renders have finished, on normal and on exceptional exit of the asset
\* stage; no task runs or holds a page while the session is not open.
C28_SessionOpenedOnceClosedOnce ==
    /\ opens <= 1 /\ closes <= 1
    /\ \A t \in 1..Len(tstate) :
          tstate[t] \in {"running", "page"} => session = "open"
    /\ closes = 1 =>
          /\ \A t \in 1..Len(tstate) : tstate[t] = "settled"
          /\ rpc \in {"html", "raised"}
    /\ rpc \in {"html", "raised"} => closes = opens

\* the extension the destination of a reference must carry
ExpectedExt(kind, url) ==
    CASE url = MOV_URL -> ".mov"
      [] url = JPG_URL -> ".jpg"
      [] OTHER         -> IF kind = "video" THEN ".mp4" ELSE ".png"

\* C30: every download task has the destination module_<slide index><ext>,
\* which differs from the destination of every other task and from every
\* diagram output of the run; the extension is that of the URL path, or
\* .mp4 for a video and .png for an image when the URL has none or does not
\* parse.
C30_DestinationsDistinct ==
    /\ \A t, u \in 1..Len(downloadTasks) :
          t # u => downloadTasks[t].path # downloadTasks[u].path
    /\ \A t \in 1..Len(downloadTasks) :
          LET task == downloadTasks[t] IN
            /\ task.path = [stem |-> "module", index |-> task.index,
                            ext |-> ExpectedExt(task.type, task.url)]
            /\ \A idx \in 0..(Len(aggregatedSlides) - 1) :
                  task.path # [stem |-> "diagram", index |-> idx, ext |-> ".png"]

\* two tasks with the same extension run at the same time, one of them for
\* a URL that does not parse, in a list that also holds a diagram
C30_Witness ==
    /\ rpc = "downloads"
    /\ \E t, u \in 1..Len(downloadTasks) :
          /\ t # u
          /\ tstate[t] = "running" /\ tstate[u] = "running"
          /\ downloadTasks[t].path.ext = downloadTasks[u].path.ext
          /\ downloadTasks[t].url = REL_URL
    /\ \E idx \in 0..(Len(aggregatedSlides) - 1) : Renderable(idx)

\* C31: with downloads failing, files rejected and the diagram engine
\* unavailable in any combination, and every single network or browser call
\* returning, the asset stage completes: from the start of the downloads the
\* run reaches the rendering stage with every task settled, every slide
\* passed by the diagram loop and the session closed.  Runs are left out
\* where closing the session raised or the diagram code was not a string.
C31_AssetStageCompletes ==
    (rpc = "downloads") ~>
        \/ /\ rpc = "html"
           /\ \A t \in 1..Len(tstate) : tstate[t] = "settled"
           /\ di = Len(aggregatedSlides)
           /\ session = "closed"
        \/ sessErr
        \/ rexc

\* the asset of the slide at position k is a file
Resolved(k) == assetMap[k] # NoAsset /\ assetMap[k].path # NoPath

\* C34: in the HTML of a module_description slide the manual-insertion hint
\* is shown exactly when the slide has no resolved media file and a video
\* URL that is not blank, and then carries that URL; a slide whose asset
\* failed shows the hint or an empty media area; a resolved file is shown as
\* media, never together with the hint.
C34_HintIffNoMediaAndVideoUrl ==
    rpc = "pptx" =>
        \A k \in 1..Len(aggregatedSlides) :
            LET slide == aggregatedSlides[k]
                m     == htmlMedia[k]
            IN slide.type = "module_description" =>
                 /\ (m.show = "hint") <=>
                       (~Resolved(k) /\ NonBlank(slide.video_url))
                 /\ m.show = "hint" => m.url = slide.video_url
                 /\ IsFailedKind(KindAt(k - 1)) => m.show \in {"hint", "empty"}
                 /\ Resolved(k) =>
                       /\ m.show \in {"video", "img"}
                       /\ m.src = assetMap[k].path

\* one slide with a failed video shows the hint, another with a failed image
\* shows an empty media area
C34_Witness ==
    /\ rpc = "pptx"
    /\ \E k \in 1..Len(aggregatedSlides) :
          KindAt(k - 1) = "video_failed" /\ htmlMedia[k].show = "hint"
    /\ \E k \in 1..Len(aggregatedSlides) :
          KindAt(k - 1) = "image_failed" /\ htmlMedia[k].show = "empty"

\* the slide at position k carries a video and an image reference
HasBoth(k) ==
    /\ aggregatedSlides[k].type = "module_description"
    /\ NonBlank(aggregatedSlides[k].video_url)
    /\ NonBlank(aggregatedSlides[k].image_url)

\* C35: for a slide with both a video and an image reference only the video
\* is fetched: its one task is the video task with a destination made from
\* the video URL, no task ever names the image URL, and its record, if the
\* video fails, is video_failed and never an image record.
C35_OnlyVideoFetched ==
    \A k \in 1..Len(aggregatedSlides) :
        HasBoth(k) =>
            /\ \A t \in 1..Len(downloadTasks) :
                  downloadTasks[t].index = k - 1 =>
                      /\ downloadTasks[t].type = "video"
                      /\ downloadTasks[t].url = aggregatedSlides[k].video_url
                      /\ downloadTasks[t].path.ext
                            = ExpectedExt("video", aggregatedSlides[k].video_url)
            /\ (rpc = "downloads" \/ Merged) =>
                  \E t \in 1..Len(downloadTasks) : downloadTasks[t].index = k - 1
            /\ KindAt(k - 1) \in {"none", "video", "video_failed"}
            /\ writes[k] <= 1

\* the video of a slide with both references failed; the stage is over and
\* the slide has the video_failed record
C35_Witness ==
    /\ rpc = "html"
    /\ \E k \in 1..Len(aggregatedSlides) :
          HasBoth(k) /\ KindAt(k - 1) = "video_failed" /\ writes[k] = 1

-----------------------------------------------------------------------------
(* One pass of the diagram loop (lines 1140-1155) with                      *)
(* renderMermaidDiagram (lines 714-754) and the files it touches, followed  *)
(* by the HTML of the slide (line 1194).                                    *)

RenderInit ==
    /\ rslide \in RunCatalogue
    /\ rIdx \in 0..(MaxRunSlides - 1)
    /\ outFile \in {"none", "stale"}       \* a file left by an earlier run
    /\ mmdExists = FALSE /\ wrote = FALSE
    /\ engineRes = "notcalled" /\ sharpRes = "notcalled" /\ rret = "none"
    /\ drecord = NoAsset /\ dhtml = "none" /\ rndpc = "loop"
    /\ ValIdle /\ FetchIdle /\ AggIdle /\ RunIdle

\* what one pass leaves alone
passFrame == <<valVars, fetchVars, aggVars, runVars, rslide, rIdx>>

\* the slide is no mermaid diagram: nothing to do in this pass
PassNotDiagram ==
    /\ rndpc = "loop"
    /\ ~IsMermaid(rslide)
    /\ rndpc' = "next"
    /\ UNCHANGED <<mmdExists, outFile, wrote, engineRes, sharpRes, rret,
                   drecord, dhtml>>
    /\ UNCHANGED passFrame

\* diagramCode.trim() is empty: the else branch warns
PassEmptyCode ==
    /\ rndpc = "loop"
    /\ IsMermaid(rslide) /\ IsString(rslide.code)
    /\ Trim(rslide.code.str) = ""
    /\ rndpc' = "next"
    /\ UNCHANGED <<mmdExists, outFile, wrote, engineRes, sharpRes, rret,
                   drecord, dhtml>>
    /\ UNCHANGED passFrame

\* diagramCode.trim is not a function
PassCodeRaises ==
    /\ rndpc = "loop"
    /\ IsMermaid(rslide) /\ ~IsString(rslide.code)
    /\ rndpc' = "raised"
    /\ UNCHANGED <<mmdExists, outFile, wrote, engineRes, sharpRes, rret,
                   drecord, dhtml>>
    /\ UNCHANGED passFrame

\* await renderMermaidDiagram(diagramCode, diagramPath) is entered
CallRender ==
    /\ rndpc = "loop"
    /\ IsMermaid(rslide) /\ IsString(rslide.code)
    /\ Trim(rslide.code.str) # ""
    /\ rndpc' = "write_mmd"
    /\ UNCHANGED <<mmdExists, outFile, wrote, engineRes, sharpRes, rret,
                   drecord, dhtml>>
    /\ UNCHANGED passFrame

\* await fs.promises.writeFile(tempMmdFile, mermaidCode)
WriteMmd ==
    /\ rndpc = "write_mmd"
    /\ \/ /\ mmdExists' = TRUE /\ wrote' = TRUE /\ rndpc' = "exec"
       \/ /\ rndpc' = "catch" /\ UNCHANGED <<mmdExists, wrote>>   \* it raises
    /\ UNCHANGED <<outFile, engineRes, sharpRes, rret, drecord, dhtml>>
    /\ UNCHANGED passFrame

\* execSync(`mmdc -i ... -o ...`)
ExecEngine ==
    /\ rndpc = "exec"
    /\ \/ /\ engineRes' = "ok" /\ outFile' = "engine" /\ wrote' = TRUE
          /\ rndpc' = "unlink"
       \/ /\ engineRes' = "failed"             \* not installed: nothing written
          /\ rndpc' = "catch" /\ UNCHANGED <<outFile, wrote>>
       \/ /\ engineRes' = "failed"             \* it exits with an error
          /\ outFile' = "partial" /\ wrote' = TRUE /\ rndpc' = "catch"
    /\ UNCHANGED <<mmdExists, sharpRes, rret, drecord, dhtml>>
    /\ UNCHANGED passFrame

\* await fs.promises.unlink(tempMmdFile); return outputPath
UnlinkMmd ==
    /\ rndpc = "unlink"
    /\ \/ /\ mmdExists' = FALSE /\ rret' = "path" /\ rndpc' = "returned"
       \/ /\ rndpc' = "catch" /\ UNCHANGED <<mmdExists, rret>>   \* it raises
    /\ UNCHANGED <<outFile, wrote, engineRes, sharpRes, drecord, dhtml>>
    /\ UNCHANGED passFrame

\* the outer catch handing the error on
RenderOuterRethrows == "raised"

\* catch (error) { console.error(...); return null; }
RenderOuterCatch == "null"

\* the inner catch: await sharp(svg).png().toFile(outputPath); return outputPath
Placeholder ==
    /\ rndpc = "catch"
    /\ \/ /\ sharpRes' = "ok" /\ outFile' = "placeholder" /\ wrote' = TRUE
          /\ rret' = "path"
       \/ /\ sharpRes' = "failed" /\ rret' = RenderOuterCatch
          /\ UNCHANGED <<outFile, wrote>>
    /\ rndpc' = "returned"
    /\ UNCHANGED <<mmdExists, engineRes, drecord, dhtml>>
    /\ UNCHANGED passFrame

\* back in the loop: assetMap.set(i, { type: 'diagram', path: diagramPath })
RecordDiagram ==
    /\ rndpc = "returned"
    /\ IF rret = "raised"
         THEN rndpc' = "raised" /\ UNCHANGED drecord
         ELSE /\ drecord' = DiagramRecord(rIdx, rret)
              /\ rndpc' = "next"
    /\ UNCHANGED <<mmdExists, outFile, wrote, engineRes, sharpRes, rret, dhtml>>
    /\ UNCHANGED passFrame

\* generateDiagramHTML(slide, asset?.path, ...) in the HTML loop
DiagramHtml ==
    /\ rndpc = "next"
    /\ rslide.type = "diagram"
    /\ dhtml' = generateDiagramHTML(PathOf(drecord)).show
    /\ rndpc' = "html"
    /\ UNCHANGED <<mmdExists, outFile, wrote, engineRes, sharpRes, rret,
                   drecord>>
    /\ UNCHANGED passFrame

RenderNext ==
    \/ PassNotDiagram
    \/ PassEmptyCode
    \/ PassCodeRaises
    \/ CallRender
    \/ WriteMmd
    \/ ExecEngine
    \/ UnlinkMmd
    \/ Placeholder
    \/ RecordDiagram
    \/ DiagramHtml

SpecRender == RenderInit /\ [][RenderNext]_vars

TypeOKRender ==
    /\ outFile \in {"none", "stale", "partial", "engine", "placeholder"}
    /\ rret \in {"none", "path", "null", "raised"}
    /\ dhtml \in {"none", "img", "empty"}

-----------------------------------------------------------------------------
(* One pass of the diagram loop: properties *)

\* the slide of the pass is a mermaid diagram whose code is a string
StringDiagram ==
    /\ rslide.type = "diagram" /\ rslide.dtype = "mermaid"
    /\ DOMAIN rslide.code = {"str"}

\* its code is empty or only whitespace
EmptySource == StringDiagram /\ rslide.code.str \in {"", BLANK}

\* C32: for a diagram slide whose source is empty or only whitespace the
\* engine is never invoked, no file is written, no record is set, nothing is
\* raised, and the HTML of the slide has no diagram image.
C32_EmptySourceSkipped ==
    EmptySource =>
        /\ engineRes = "notcalled" /\ sharpRes = "notcalled"
        /\ rret = "none"
        /\ ~wrote /\ ~mmdExists
        /\ drecord = NoAsset
        /\ rndpc \in {"loop", "next", "html"}
        /\ rndpc = "html" => dhtml = "empty"

\* the pass over a slide with whitespace for code is over and its HTML made
C32_Witness ==
    /\ StringDiagram /\ rslide.code.str = BLANK
    /\ rndpc = "html" /\ dhtml = "empty"

\* C33 as stated: when the source is not empty and the engine is
\* unavailable or fails, renderMermaidDiagram writes a placeholder at the
\* output path and returns that path.
C33_PlaceholderOnEngineFailure ==
    (engineRes = "failed" /\ rret # "none") =>
        /\ rret = "path"
        /\ outFile = "placeholder"

\* C33, amended: when the source is not empty and the engine is unavailable
\* or fails, renderMermaidDiagram does not raise; it returns the output path
\* with the placeholder written there when the placeholder can be written,
\* and null when writing the placeholder fails as well.
C33_PlaceholderUnlessWriteFails ==
    (engineRes = "failed" /\ rret # "none") =>
        /\ rret \in {"path", "null"}
        /\ sharpRes \in {"ok", "failed"}
        /\ sharpRes = "ok" => rret = "path" /\ outFile = "placeholder"
        /\ sharpRes = "failed" => rret = "null"

\* the engine failed and the call has returned the output path, where the
\* placeholder now is
C33_Witness ==
    /\ engineRes = "failed" /\ sharpRes = "ok"
    /\ rret = "path" /\ outFile = "placeholder"
    /\ rndpc = "returned"

\* C36: a diagram record names a file that exists when the record is set:
\* it is set only when renderMermaidDiagram returned a path, never when it
\* returned null.
C36_DiagramRecordNamesFile ==
    drecord # NoAsset =>
        /\ rret = "path"
        /\ outFile \in {"engine", "placeholder"}

\* C37: once renderMermaidDiagram has returned, on every path, the
\* temporary .mmd file no longer exists.
C37_TempFileRemoved ==
    rret # "none" => ~mmdExists

-----------------------------------------------------------------------------
(* aggregateSlides: the input list *)

\* C38: aggregateSlides leaves its input unchanged: no step of the call
\* changes the length or order of the input list or any field of an input
\* slide.
C38_InputUnchanged == [][slides' = slides]_vars

\* the call has returned slides derived with a new title and with a part of
\* the content, and the input slides they come from still have their own
C38_Witness ==
    /\ AggDone
    /\ \E j \in 1..Len(aggregated) :
          /\ aggregated[j].group # "absent"
          /\ aggregated[j].title # slides[origin[j]].title
          /\ slides[origin[j]].group = "absent"
    /\ \E j \in 1..Len(aggregated) :
          /\ aggregated[j].content # slides[origin[j]].content
          /\ Len(slides[origin[j]].content) > MAX_ITEMS_PER_SLIDE

====
